---- MODULE Spec2Model ----
(***************************************************************************)
(* A model of the text extraction engine of auto_claim.py.                 *)
(*                                                                         *)
(* Text is a sequence of characters.  An ASCII character is itself (a      *)
(* one-character string); a non-ASCII character of the source is written   *)
(* as its pinyin: "nian" 年, "yue" 月, "ri" 日, "fwc" ： (full-width         *)
(* colon), "huo" 活, "dong" 动, "biao" 标, "ti" 题, "nei" 内, "rong" 容,   *)
(* "jie" 介, "shao" 绍, "tu" 图, "pian" 片, "ling" 领, "quan" 券,          *)
(* "shi" 失, "bai" 败, "zan" 暂, "wu" 无, "ke" 可, "qu" 取, "de" 的,       *)
(* "you1" 优, "hui" 惠, "cheng" 成, "gong" 功, "you3" 有, "xiao" 效,       *)
(* "qi" 期, "wei" 未, "zhi" 知, "yen" ¥.  Every element of a text is one   *)
(* character of the Python string, so len() is Len().                      *)
(*                                                                         *)
(* Each regular expression of the source is an operator that computes the  *)
(* match the backtracking matcher of Python's re module finds.             *)
(***************************************************************************)
EXTENDS Integers, Sequences, FiniteSets, TLC

VARIABLES
    mode,         \* which function this behaviour runs
    src,          \* how the input text was put together (ghost: read by no operation)
    text,         \* the text argument of the running function
    server_date,  \* parse_calendar_activities: the server_date argument, <<>> for None
    now,          \* parse_calendar_activities: datetime.now()
    pc,           \* "start", "loop", "done" or "raised"
    matches,      \* parse_calendar_activities: list(re.finditer(date_pattern, text))
    i,            \* parse_calendar_activities: the index of the loop over matches
    kept,         \* ghost: the indices of the matches that passed both filters
    activities,   \* parse_calendar_activities: the list being built; the calendar_data
                  \* of save_calendar_data, generate_cron_schedule and the mode functions
    file,         \* the content of CALENDAR_DATA_FILE, NoFile when there is none
    result,       \* the value returned (by any of the functions)
    claim_result, \* mode_auto_claim, mode_full: the local of that name, None before
    my_coupons,   \* mode_auto_claim, mode_full: the local of that name
    calls,        \* ghost: what the run did to the outside so far, <<what, outcome>> each
    exit_code     \* what the mode function returned, <<>> while it runs

\* The variables of a run of a mode function.
run_vars == <<claim_result, my_coupons, calls, exit_code>>

vars == <<mode, src, text, server_date, now, pc, matches, i, kept, activities, file, result,
          run_vars>>

\* CALENDAR_DATA_FILE does not exist.
NoFile == <<"no file">>

----------------------------------------------------------------------------
(* Characters and strings                                                  *)

NL == "\n"
BS == "\\"
QUOTE == "\""

\* What \s matches (of the characters the texts here are made of).
IsSpace(c) == c \in {" ", "\n", "\r", "\t"}

\* What \d matches.
IsDigit(c) == c \in {"0", "1", "2", "3", "4", "5", "6", "7", "8", "9"}

\* [：:] of the patterns.
IsColon(c) == c \in {"fwc", ":"}

Min(S) == CHOOSE x \in S : \A y \in S : x <= y
Max(S) == CHOOSE x \in S : \A y \in S : x >= y

\* t[a:b] with 1-based inclusive indices; empty when a > b.
Slice(t, a, b) == IF a > b THEN <<>> ELSE SubSeq(t, a, b)

\* t.startswith(pat, p - 1)
StartsWithAt(t, p, pat) ==
    /\ p >= 1
    /\ p + Len(pat) - 1 <= Len(t)
    /\ \A k \in 1..Len(pat) : t[p + k - 1] = pat[k]

\* t.find(pat, from - 1) + 1: the first position >= from where pat occurs, 0 if none.
Find(t, pat, from) ==
    LET S == {p \in from..(Len(t) - Len(pat) + 1) : StartsWithAt(t, p, pat)}
    IN IF S = {} THEN 0 ELSE Min(S)

\* pat in t
Contains(t, pat) == Find(t, pat, 1) # 0

RECURSIVE ReplaceFrom(_, _, _, _)
ReplaceFrom(t, pat, rep, p) ==
    LET q == Find(t, pat, p)
    IN IF q = 0 THEN Slice(t, p, Len(t))
       ELSE Slice(t, p, q - 1) \o rep \o ReplaceFrom(t, pat, rep, q + Len(pat))

\* t.replace(pat, rep): the non-overlapping occurrences, left to right.
str_replace(t, pat, rep) == ReplaceFrom(t, pat, rep, 1)

\* t.strip()
Strip(t) ==
    LET N == {p \in 1..Len(t) : ~IsSpace(t[p])}
    IN IF N = {} THEN <<>> ELSE SubSeq(t, Min(N), Max(N))

\* The position after the longest run of \s starting at p (what a greedy \s* reaches).
SkipSpace(t, p) ==
    LET N == {q \in p..Len(t) : ~IsSpace(t[q])}
    IN IF N = {} THEN Len(t) + 1 ELSE Min(N)

\* The position after the longest run of \d starting at p.
SkipDigits(t, p) ==
    LET N == {q \in p..Len(t) : ~IsDigit(t[q])}
    IN IF N = {} THEN Len(t) + 1 ELSE Min(N)

\* The position of the first newline at or after p, Len(t) + 1 if none.
LineEnd(t, p) ==
    LET N == {q \in p..Len(t) : t[q] = NL}
    IN IF N = {} THEN Len(t) + 1 ELSE Min(N)

\* The span <<a, b>> of group 1 of  \s*(.+?)(?:\n|$)  matched at p, <<0, 0>> if it
\* does not match there.  \s* takes the whole run of white space; when a character
\* follows the run, the lazy group starts there and stops before the next newline
\* (or at the end).  When the run reaches the end of the text the matcher gives
\* characters of the run back, last first, until the group can start: at the last
\* character of the run that is not a newline.
LazyLine(t, p) ==
    LET e == SkipSpace(t, p)
        C == {q \in p..Len(t) : t[q] # NL}
    IN IF e <= Len(t) THEN <<e, LineEnd(t, e) - 1>>
       ELSE IF C = {} THEN <<0, 0>>
       ELSE <<Max(C), LineEnd(t, Max(C)) - 1>>

----------------------------------------------------------------------------
(* clean_text                                                              *)

\* Mutant of LastNewlineInRun: the first newline of the run (a lazy \s*?)
LastNewlineInRun_Lazy(t, p) ==
    LET S == {r \in p..(SkipSpace(t, p) - 1) : t[r] = NL}
    IN IF S = {} THEN 0 ELSE Min(S)

\* The last newline of the run of white space that starts at p, 0 if it has none.
LastNewlineInRun(t, p) ==
    LET S == {r \in p..(SkipSpace(t, p) - 1) : t[r] = NL}
    IN IF S = {} THEN 0 ELSE Max(S)

RECURSIVE SubBlankFrom(_, _)
SubBlankFrom(t, p) ==
    LET starts == {q \in p..Len(t) : t[q] = NL /\ LastNewlineInRun(t, q + 1) # 0}
    IN IF starts = {} THEN Slice(t, p, Len(t))
       ELSE LET q == Min(starts)
            IN Slice(t, p, q - 1) \o <<NL>> \o SubBlankFrom(t, LastNewlineInRun(t, q + 1) + 1)

\* re.sub(r'\n\s*\n', '\n', t): a match starts at a newline, \s* runs to the end of
\* the white space and backs up to the last newline of the run.
SubBlankLines(t) == SubBlankFrom(t, 1)

clean_text(t) ==
    IF t = <<>> THEN <<>>
    ELSE LET t1 == str_replace(t, <<BS, "n">>, <<NL>>)
             t2 == str_replace(t1, <<BS, BS>>, <<>>)
             t3 == str_replace(t2, <<BS, " ">>, <<" ">>)
         IN Strip(SubBlankLines(t3))

----------------------------------------------------------------------------
(* parse_activity_details                                                  *)

TitleLabel == <<"*", "*", "huo", "dong", "biao", "ti", "*", "*">>
IntroLabel == <<"*", "*", "huo", "dong", "nei", "rong", "jie", "shao", "*", "*">>
ImageLabel == <<"*", "*", "huo", "dong", "tu", "pian", "jie", "shao", "*", "*">>
ImgOpen == <<"<", "i", "m", "g">>
SrcAttr == <<"s", "r", "c", "=", QUOTE>>
Ellipsis == <<".", ".", ".">>

MaxIntroLen == 300

\* Mutant of MarkerEnd: the pattern without its \s*
MarkerEnd_NoSpace(t, q) ==
    IF q + 1 <= Len(t) /\ t[q] = NL /\ t[q + 1] = "-" /\ StartsWithAt(t, q + 2, TitleLabel)
    THEN q + 2 + Len(TitleLabel) ELSE 0

\* The position after a match of  \n-\s*\*\*活动标题\*\*  at q, 0 if it does not match.
MarkerEnd(t, q) ==
    IF q + 1 <= Len(t) /\ t[q] = NL /\ t[q + 1] = "-"
    THEN LET e == SkipSpace(t, q + 2)
         IN IF StartsWithAt(t, e, TitleLabel) THEN e + Len(TitleLabel) ELSE 0
    ELSE 0

RECURSIVE SplitFrom(_, _)
SplitFrom(t, p) ==
    LET S == {q \in p..Len(t) : MarkerEnd(t, q) # 0}
    IN IF S = {} THEN <<Slice(t, p, Len(t))>>
       ELSE <<Slice(t, p, Min(S) - 1)>> \o SplitFrom(t, MarkerEnd(t, Min(S)))

\* re.split(r'\n-\s*\*\*活动标题\*\*', content)
activity_blocks(content) == SplitFrom(content, 1)

\* The span <<a, b>> of group 1 of  <img\s+src="([^"]+)"  matched at q, <<0, 0>> if it
\* does not match there: the group runs up to the next quote and is not empty.
ImgAt(t, q) ==
    LET a == q + Len(ImgOpen)
        e == SkipSpace(t, a)
        u == e + Len(SrcAttr)
        c == Find(t, <<QUOTE>>, u)
    IN IF StartsWithAt(t, q, ImgOpen) /\ e > a /\ StartsWithAt(t, e, SrcAttr) /\ c > u
       THEN <<u, c - 1>> ELSE <<0, 0>>

\* group(1) of re.search(r'<img\s+src="([^"]+)"', t), <<>> if there is no match (the
\* code's default).
img_match(t) ==
    LET S == {q \in 1..Len(t) : ImgAt(t, q)[1] # 0}
    IN IF S = {} THEN <<>> ELSE Slice(t, ImgAt(t, Min(S))[1], ImgAt(t, Min(S))[2])

\* title_match of the primary strategy: group(1) of  ^[：:]\s*(.+?)(?:\n|$)  or,
\* when that does not match,  ^\s*(.+?)(?:\n|$) ; <<>> when neither matches.
title_match(block) ==
    LET m1 == IF block # <<>> /\ IsColon(block[1]) THEN LazyLine(block, 2) ELSE <<0, 0>>
        m2 == LazyLine(block, 1)
        m  == IF m1[1] # 0 THEN m1 ELSE m2
    IN IF m[1] = 0 THEN <<>> ELSE Slice(block, m[1], m[2])

\* group(1).strip() of
\*   re.search(r'\*\*活动内容介绍\*\*[：:]\s*([\s\S]*?)(?=\*\*活动图片介绍\*\*|$)', block)
\* The lazy group ends at the first image label or at $, which is the end of the
\* text or the position of a newline that ends the text.
content_match(block) ==
    LET S == {q \in 1..Len(block) :
                 /\ StartsWithAt(block, q, IntroLabel)
                 /\ q + Len(IntroLabel) <= Len(block)
                 /\ IsColon(block[q + Len(IntroLabel)])}
        q == Min(S)
        s == SkipSpace(block, q + Len(IntroLabel) + 1)
        stops == {r \in s..Len(block) : StartsWithAt(block, r, ImageLabel)}
                     \cup {Len(block) + 1}
                     \cup {r \in s..Len(block) : r = Len(block) /\ block[r] = NL}
    IN IF S = {} THEN <<>> ELSE Strip(Slice(block, s, Min(stops) - 1))

\* Mutant of Truncate: if len(intro) >= 300
Truncate_AtLimit(intro) ==
    IF Len(intro) >= MaxIntroLen THEN SubSeq(intro, 1, MaxIntroLen) \o Ellipsis ELSE intro

\* if len(intro) > 300: intro = intro[:300] + "..."
Truncate(intro) ==
    IF Len(intro) > MaxIntroLen THEN SubSeq(intro, 1, MaxIntroLen) \o Ellipsis ELSE intro

\* One iteration of the loop over the blocks: the records it appends (none or one).
\* k is the index of the block, from 0.
BlockRecords(k, block0) ==
    LET dropFirst == k = 0 /\ ~Contains(block0, TitleLabel)
        stripLabel == dropFirst /\ StartsWithAt(Strip(block0), 1, TitleLabel)
        block == IF stripLabel
                 THEN Slice(Strip(block0), Len(TitleLabel) + 1, Len(Strip(block0)))
                 ELSE block0
        title == clean_text(Strip(title_match(block)))
        intro == Truncate(clean_text(content_match(block)))
        img   == img_match(block)
    IN IF Strip(block0) = <<>> THEN <<>>
       ELSE IF dropFirst /\ ~stripLabel THEN <<>>
       ELSE IF title = <<>> THEN <<>>
       ELSE <<[title |-> title, content |-> intro, img |-> img]>>

RECURSIVE PrimaryFrom(_, _)
PrimaryFrom(blocks, k) ==
    IF k > Len(blocks) THEN <<>>
    ELSE BlockRecords(k - 1, blocks[k]) \o PrimaryFrom(blocks, k + 1)

\* The span of group 1 of  \*\*活动标题\*\*[：:]\s*(.+?)(?:\n|\\n|$)  matched at q,
\* <<0, 0>> if it does not match there.  As LazyLine, but the lazy group also stops
\* before a backslash followed by n.
FallbackTitleAt(t, q) ==
    LET c == q + Len(TitleLabel)
        e == SkipSpace(t, c + 1)
        C == {r \in (c + 1)..Len(t) : t[r] # NL}
        a == IF e <= Len(t) THEN e ELSE IF C = {} THEN 0 ELSE Max(C)
        stops == {r \in (a + 1)..Len(t) : t[r] = NL \/ StartsWithAt(t, r, <<BS, "n">>)}
        b == IF stops = {} THEN Len(t) ELSE Min(stops) - 1
    IN IF StartsWithAt(t, q, TitleLabel) /\ c <= Len(t) /\ IsColon(t[c]) /\ a # 0
       THEN <<a, b>> ELSE <<0, 0>>

\* The end of the match of the fallback title pattern at q: the group and the
\* terminator it consumed.
FallbackMatchEnd(t, q) ==
    LET b == FallbackTitleAt(t, q)[2]
    IN IF b = Len(t) THEN b
       ELSE IF t[b + 1] = NL THEN b + 1 ELSE b + 2

RECURSIVE FallbackTitlesFrom(_, _)
FallbackTitlesFrom(t, p) ==
    LET S == {q \in p..Len(t) : FallbackTitleAt(t, q)[1] # 0}
        q == Min(S)
        g == FallbackTitleAt(t, q)
    IN IF S = {} THEN <<>>
       ELSE <<Slice(t, g[1], g[2])>> \o FallbackTitlesFrom(t, FallbackMatchEnd(t, q) + 1)

RECURSIVE ImgsFrom(_, _)
\* group(1) of every match of the image pattern from p on; a match ends at its
\* closing quote and the next one is looked for after it.
ImgsFrom(t, p) ==
    LET S == {q \in p..Len(t) : ImgAt(t, q)[1] # 0}
        g == ImgAt(t, Min(S))
    IN IF S = {} THEN <<>>
       ELSE <<Slice(t, g[1], g[2])>> \o ImgsFrom(t, g[2] + 2)

RECURSIVE FallbackFrom_FirstImage(_, _, _)
\* Mutant of FallbackFrom: every title gets the first image
FallbackFrom_FirstImage(titles, imgs, k) ==
    IF k > Len(titles) THEN <<>>
    ELSE LET title == clean_text(Strip(titles[k]))
             img == IF imgs # <<>> THEN imgs[1] ELSE <<>>
         IN (IF title = <<>> THEN <<>>
             ELSE <<[title |-> title, content |-> <<>>, img |-> img]>>)
            \o FallbackFrom_FirstImage(titles, imgs, k + 1)

RECURSIVE FallbackFrom(_, _, _)
FallbackFrom(titles, imgs, k) ==
    IF k > Len(titles) THEN <<>>
    ELSE LET title == clean_text(Strip(titles[k]))
             img == IF k <= Len(imgs) THEN imgs[k] ELSE <<>>
         IN (IF title = <<>> THEN <<>>
             ELSE <<[title |-> title, content |-> <<>>, img |-> img]>>)
            \o FallbackFrom(titles, imgs, k + 1)

\* The second strategy, tried when the first found nothing.
fallback_details(content) ==
    FallbackFrom(FallbackTitlesFrom(content, 1), ImgsFrom(content, 1), 1)

\* content.replace('\\n', '\n').replace('\\\\n', '\n')
normalize_newlines(content) ==
    str_replace(str_replace(content, <<BS, "n">>, <<NL>>), <<BS, BS, "n">>, <<NL>>)

primary_details(content) == PrimaryFrom(activity_blocks(content), 1)

parse_activity_details(content0) ==
    LET content == normalize_newlines(content0)
        found == primary_details(content)
    IN IF found # <<>> THEN found ELSE fallback_details(content)

----------------------------------------------------------------------------
(* parse_calendar_activities: dates and the date pattern                   *)

RECURSIVE DigitsToInt(_)
\* int(ds) of a run of digits.
DigitsToInt(ds) ==
    IF ds = <<>> THEN 0
    ELSE 10 * DigitsToInt(SubSeq(ds, 1, Len(ds) - 1))
         + (CHOOSE v \in 0..9 : ds[Len(ds)] = <<"0", "1", "2", "3", "4", "5", "6", "7", "8", "9">>[v + 1])

RECURSIVE IntToDigits(_)
\* str(n), n >= 0
IntToDigits(n) ==
    LET d == <<<<"0", "1", "2", "3", "4", "5", "6", "7", "8", "9">>[(n % 10) + 1]>>
    IN IF n < 10 THEN d ELSE IntToDigits(n \div 10) \o d

\* f"{n:02d}"
Pad2(n) == IF n < 10 THEN <<"0">> \o IntToDigits(n) ELSE IntToDigits(n)

IsLeap(y) == (y % 4 = 0 /\ y % 100 # 0) \/ y % 400 = 0

DaysInMonth(y, m) ==
    IF m = 2 THEN (IF IsLeap(y) THEN 29 ELSE 28)
    ELSE IF m \in {4, 6, 9, 11} THEN 30 ELSE 31

\* datetime(y, m, d) returns; it raises ValueError otherwise.
ValidDate(y, m, d) ==
    /\ y \in 1..9999
    /\ m \in 1..12
    /\ d \in 1..DaysInMonth(y, m)

\* datetime(y, m, d): midnight of that day.
DateTime(y, m, d) == [year |-> y, month |-> m, day |-> d, hour |-> 0, minute |-> 0]

\* a < b on datetimes
Before(a, b) ==
    LET ka == <<a.year, a.month, a.day, a.hour, a.minute>>
        kb == <<b.year, b.month, b.day, b.hour, b.minute>>
    IN \E k \in 1..5 : ka[k] < kb[k] /\ \A j \in 1..(k - 1) : ka[j] = kb[j]

\* dt.replace(hour=0, minute=0, second=0, microsecond=0)
Midnight(dt) == [dt EXCEPT !.hour = 0, !.minute = 0]

\* datetime.strptime(s, "%Y-%m-%d") of a well-formed s: digits-digits-digits.
Strptime(s) ==
    LET a == Find(s, <<"-">>, 1)
        b == Find(s, <<"-">>, a + 1)
    IN DateTime(DigitsToInt(Slice(s, 1, a - 1)),
                DigitsToInt(Slice(s, a + 1, b - 1)),
                DigitsToInt(Slice(s, b + 1, Len(s))))

\* f"{year}-{month:02d}-{day:02d}"
FormatDate(y, m, d) == IntToDigits(y) \o <<"-">> \o Pad2(m) \o <<"-">> \o Pad2(d)

\* The match of  ####?\s*(?:(\d+)年)?(\d+)月(\d+)日  at p: [ok, start, end, year, month,
\* day], year empty when group 1 did not take part; end is the position after the
\* match.  Every choice of the matcher is forced: after ### a fourth # is taken when
\* there is one (without it the next character would have to be a digit or white
\* space), \s* and each \d+ take their whole run (the character after must be a digit,
\* 年 or 月, 月, 日), and the year group takes part exactly when 年 follows the first
\* run of digits.
NoMatch == [ok |-> FALSE]

\* Mutant of DateAt: the heading markers optional, #*\s*(?:(\d+)年)?(\d+)月(\d+)日
DateAt_AnyHashes(t, p) ==
    LET N  == {q \in p..Len(t) : t[q] # "#"}
        h  == IF N = {} THEN Len(t) + 1 ELSE Min(N)
        e  == SkipSpace(t, h)
        d1 == SkipDigits(t, e)
        hasYear == d1 <= Len(t) /\ t[d1] = "nian"
        ms == IF hasYear THEN d1 + 1 ELSE e
        d2 == SkipDigits(t, ms)
        d3 == SkipDigits(t, d2 + 1)
    IN IF /\ d1 > e
          /\ d2 > ms /\ d2 <= Len(t) /\ t[d2] = "yue"
          /\ d3 > d2 + 1 /\ d3 <= Len(t) /\ t[d3] = "ri"
       THEN [ok |-> TRUE, start |-> p, end |-> d3 + 1,
             year |-> IF hasYear THEN Slice(t, e, d1 - 1) ELSE <<>>,
             month |-> Slice(t, ms, d2 - 1),
             day |-> Slice(t, d2 + 1, d3 - 1)]
       ELSE NoMatch

DateAt(t, p) ==
    LET h  == IF StartsWithAt(t, p, <<"#", "#", "#", "#">>) THEN p + 4 ELSE p + 3
        e  == SkipSpace(t, h)
        d1 == SkipDigits(t, e)
        hasYear == d1 <= Len(t) /\ t[d1] = "nian"
        ms == IF hasYear THEN d1 + 1 ELSE e
        d2 == SkipDigits(t, ms)
        d3 == SkipDigits(t, d2 + 1)
    IN IF /\ StartsWithAt(t, p, <<"#", "#", "#">>)
          /\ d1 > e
          /\ d2 > ms /\ d2 <= Len(t) /\ t[d2] = "yue"
          /\ d3 > d2 + 1 /\ d3 <= Len(t) /\ t[d3] = "ri"
       THEN [ok |-> TRUE, start |-> p, end |-> d3 + 1,
             year |-> IF hasYear THEN Slice(t, e, d1 - 1) ELSE <<>>,
             month |-> Slice(t, ms, d2 - 1),
             day |-> Slice(t, d2 + 1, d3 - 1)]
       ELSE NoMatch

RECURSIVE DateMatchesFrom(_, _)
DateMatchesFrom(t, p) ==
    LET S == {q \in p..Len(t) : DateAt(t, q).ok}
    IN IF S = {} THEN <<>>
       ELSE <<DateAt(t, Min(S))>> \o DateMatchesFrom(t, DateAt(t, Min(S)).end)

\* list(re.finditer(date_pattern, text))
date_matches(t) == DateMatchesFrom(t, 1)

----------------------------------------------------------------------------
(* parse_claim_result                                                      *)

LingQuanShiBai == <<"ling", "quan", "shi", "bai">>
ZanWuKeLingQu == <<"zan", "wu", "ke", "ling", "qu">>
NoCouponMessage == <<"zan", "wu", "ke", "ling", "qu", "de", "you1", "hui", "quan">>
ChengGong == <<"cheng", "gong">>
ShiBai == <<"shi", "bai">>
Stars == <<"*", "*">>

\* The span of group 1 of  <label>[：:]\s*(\d+)  matched at q, <<0, 0>> if no match.
CountAt(t, label, q) ==
    LET c == q + Len(label)
        e == SkipSpace(t, c + 1)
        d == SkipDigits(t, e)
    IN IF StartsWithAt(t, q, label) /\ c <= Len(t) /\ IsColon(t[c]) /\ d > e
       THEN <<e, d - 1>> ELSE <<0, 0>>

\* int(m.group(1)) if m else 0, for m = re.search(r'<label>[：:]\s*(\d+)', t)
count_match(t, label) ==
    LET S == {q \in 1..Len(t) : CountAt(t, label, q)[1] # 0}
        g == CountAt(t, label, Min(S))
    IN IF S = {} THEN 0 ELSE DigitsToInt(Slice(t, g[1], g[2]))

\* The position of the closing ** of a match of  \*\*(.+?)\*\*  at q, 0 if no match:
\* the first ** that leaves at least one character in the group, on the same line.
BoldClose(t, q) ==
    LET S == {j \in (q + 3)..(LineEnd(t, q + 2) - 1) : StartsWithAt(t, j, Stars)}
    IN IF StartsWithAt(t, q, Stars) /\ S # {} THEN Min(S) ELSE 0

RECURSIVE BoldFrom(_, _)
BoldFrom(t, p) ==
    LET S == {q \in p..Len(t) : BoldClose(t, q) # 0}
        q == Min(S)
    IN IF S = {} THEN <<>>
       ELSE <<Slice(t, q + 2, BoldClose(t, q) - 1)>> \o BoldFrom(t, BoldClose(t, q) + 2)

\* re.findall(r'\*\*(.+?)\*\*', t)
bold_spans(t) == BoldFrom(t, 1)

\* Mutant of Take: the whole list
Take_All(xs, n) == xs

\* xs[:n]
Take(xs, n) == Slice(xs, 1, IF n < Len(xs) THEN n ELSE Len(xs))

\* Mutant of parse_claim_result: the phrase sets the message and the counts are
\* extracted all the same
parse_claim_result_CountsToo(t) ==
    IF t = <<>>
    THEN [success |-> 0, failed |-> 0, coupons |-> <<>>, message |-> <<>>]
    ELSE LET success == count_match(t, ChengGong)
             failed == count_match(t, ShiBai)
             coupons == bold_spans(t)
         IN [success |-> success, failed |-> failed,
             coupons |-> Take(coupons, success),
             message |-> IF Contains(t, LingQuanShiBai) \/ Contains(t, ZanWuKeLingQu)
                         THEN NoCouponMessage ELSE <<>>]

parse_claim_result(t) ==
    IF t = <<>>
    THEN [success |-> 0, failed |-> 0, coupons |-> <<>>, message |-> <<>>]
    ELSE IF Contains(t, LingQuanShiBai) \/ Contains(t, ZanWuKeLingQu)
    THEN [success |-> 0, failed |-> 0, coupons |-> <<>>, message |-> NoCouponMessage]
    ELSE LET success == count_match(t, ChengGong)
             failed == count_match(t, ShiBai)
             coupons == bold_spans(t)
         IN [success |-> success, failed |-> failed,
             coupons |-> Take(coupons, success), message |-> <<>>]

----------------------------------------------------------------------------
(* parse_my_coupons                                                        *)

Hashes2 == <<"#", "#">>
PriceLabel == <<"*", "*", "you1", "hui", "*", "*">>
ValidityLabel == <<"*", "*", "you3", "xiao", "qi", "*", "*">>
DefaultPrice == <<"0">>
Unknown == <<"wei", "zhi">>

\* (?=##\s+[^\n]+) matches at p: ## and a run of white space; the character after
\* the run is on the line, or, when the run ends the text, the run gives back a
\* character that is not a newline and keeps at least one.
SectionStartsAt(t, p) ==
    LET e == SkipSpace(t, p + 2)
    IN /\ StartsWithAt(t, p, Hashes2)
       /\ e > p + 2
       /\ (e <= Len(t) \/ \E q \in (p + 3)..Len(t) : t[q] # NL)

RECURSIVE SectionsFrom(_, _)
SectionsFrom(t, p) ==
    LET S == {q \in (p + 1)..Len(t) : SectionStartsAt(t, q)}
    IN IF S = {} THEN <<Slice(t, p, Len(t))>>
       ELSE <<Slice(t, p, Min(S) - 1)>> \o SectionsFrom(t, Min(S))

\* re.split(r'(?=##\s+[^\n]+)', text): the text is cut before every match; a match at
\* the very start gives an empty first section.
coupon_sections(t) ==
    IF SectionStartsAt(t, 1) THEN <<<<>>>> \o SectionsFrom(t, 1) ELSE SectionsFrom(t, 1)

\* The span of group 1 of  ##\s*(.+?)[\n\r]  matched at q, <<0, 0>> if no match.  The
\* group starts after the run of white space, or, when no line break follows there,
\* at the last character of the run from which one does; it stops before the first
\* \n or \r after its first character.
HeadingAt(t, q) ==
    LET e == SkipSpace(t, q + 2)
        Brk(g) == {f \in (g + 1)..Len(t) : t[f] \in {"\n", "\r"}}
        G == {g \in (q + 2)..e : g <= Len(t) /\ t[g] # NL /\ Brk(g) # {}}
    IN IF StartsWithAt(t, q, Hashes2) /\ G # {}
       THEN <<Max(G), Min(Brk(Max(G))) - 1>> ELSE <<0, 0>>

\* The span of group 1 of  \*\*优惠\*\*[：:]\s*¥?(\d+(?:\.\d+)?)  at q, <<0, 0>> if none.
PriceAt(t, q) ==
    LET c == q + Len(PriceLabel)
        e == SkipSpace(t, c + 1)
        a == IF e <= Len(t) /\ t[e] = "yen" THEN e + 1 ELSE e
        d == SkipDigits(t, a)
        f == SkipDigits(t, d + 1)
        frac == d <= Len(t) /\ t[d] = "." /\ f > d + 1
    IN IF StartsWithAt(t, q, PriceLabel) /\ c <= Len(t) /\ IsColon(t[c]) /\ d > a
       THEN <<a, IF frac THEN f - 1 ELSE d - 1>> ELSE <<0, 0>>

\* The span of group 1 of  \*\*有效期\*\*[：:]\s*([^\n]+)  at q, <<0, 0>> if none: the rest
\* of the line after the white space, found as LazyLine finds it.
ValidityAt(t, q) ==
    LET c == q + Len(ValidityLabel)
    IN IF StartsWithAt(t, q, ValidityLabel) /\ c <= Len(t) /\ IsColon(t[c])
       THEN LazyLine(t, c + 1) ELSE <<0, 0>>

\* Mutant of SectionRecords: a section without price or validity is skipped
SectionRecords_AllOrNothing(section) ==
    LET T == {q \in 1..Len(section) : HeadingAt(section, q)[1] # 0}
        tm == HeadingAt(section, Min(T))
        P == {q \in 1..Len(section) : PriceAt(section, q)[1] # 0}
        pm == PriceAt(section, Min(P))
        V == {q \in 1..Len(section) : ValidityAt(section, q)[1] # 0}
        vm == ValidityAt(section, Min(V))
    IN IF Strip(section) = <<>> \/ T = {} \/ P = {} \/ V = {} THEN <<>>
       ELSE <<[title |-> Strip(Slice(section, tm[1], tm[2])),
               price |-> Strip(Slice(section, pm[1], pm[2])),
               validity |-> Strip(Slice(section, vm[1], vm[2])),
               img |-> img_match(section)]>>

\* One iteration of the loop over the sections: the records it appends (none or one).
SectionRecords(section) ==
    LET T == {q \in 1..Len(section) : HeadingAt(section, q)[1] # 0}
        tm == HeadingAt(section, Min(T))
        P == {q \in 1..Len(section) : PriceAt(section, q)[1] # 0}
        pm == PriceAt(section, Min(P))
        V == {q \in 1..Len(section) : ValidityAt(section, q)[1] # 0}
        vm == ValidityAt(section, Min(V))
    IN IF Strip(section) = <<>> THEN <<>>
       ELSE IF T = {} THEN <<>>
       ELSE <<[title |-> Strip(Slice(section, tm[1], tm[2])),
               price |-> IF P = {} THEN DefaultPrice ELSE Strip(Slice(section, pm[1], pm[2])),
               validity |-> IF V = {} THEN Unknown ELSE Strip(Slice(section, vm[1], vm[2])),
               img |-> img_match(section)]>>

RECURSIVE CouponsFrom(_, _)
CouponsFrom(sections, k) ==
    IF k > Len(sections) THEN <<>>
    ELSE SectionRecords(sections[k]) \o CouponsFrom(sections, k + 1)

parse_my_coupons(t) ==
    IF t = <<>> THEN <<>> ELSE CouponsFrom(coupon_sections(t), 1)

----------------------------------------------------------------------------
(* The inputs.  A text is put together from a description (src) that the   *)
(* properties read to say what the text contains; the functions see only   *)
(* the rendered text.                                                      *)

MaxActs == 2        \* activities in a content
MaxSections == 2    \* date sections in a calendar text
MaxBold == 3        \* bold spans in a claim response
MaxCoupons == 2     \* sections in a coupon listing

\* All sequences over S of length at most n.
SeqsUpTo(S, n) == UNION {[1..k -> S] : k \in 0..n}

RECURSIVE Flatten(_)
\* The concatenation of a sequence of texts.
Flatten(ts) == IF ts = <<>> THEN <<>> ELSE ts[1] \o Flatten(Tail(ts))

\* A run of n copies of the character c.
Run(c, n) == [k \in 1..n |-> c]

\* An activity of a day's content: its title line
\*     - **活动标题**：<title>
\* then, when it has them, an introduction line and an image line
\*     **活动内容介绍**：<intro>
\*     **活动图片介绍**：<img src="u">
IntroKinds == {"none", "short", "blank", "full", "long"}

\* The introduction as written in the text ...
IntroText(kind) ==
    CASE kind = "short" -> <<"x", "y">>
      [] kind = "blank" -> <<"x", BS, "n", BS, "n", "y">>   \* two escaped newlines
      [] kind = "full"  -> Run("x", MaxIntroLen)
      [] kind = "long"  -> Run("x", MaxIntroLen + 1)
      [] OTHER -> <<>>

\* ... and as it reads once the escapes are resolved and blank lines collapsed.
IntroClean(kind) ==
    IF kind = "blank" THEN <<"x", NL, "y">> ELSE IntroText(kind)

ImgUrl == <<"u">>
ImgTag == ImgOpen \o <<" ">> \o SrcAttr \o ImgUrl \o <<QUOTE, ">">>

Items == [title : {<<"A">>, <<"B">>}, intro : IntroKinds, img : BOOLEAN]

\* The title line of an activity and the lines after it.
TitleLine(it) == <<"-", " ">> \o TitleLabel \o <<"fwc">> \o it.title \o <<NL>>

BodyLines(it) ==
    (IF it.intro = "none" THEN <<>> ELSE IntroLabel \o <<"fwc">> \o IntroText(it.intro) \o <<NL>>)
    \o (IF it.img THEN ImageLabel \o <<"fwc">> \o ImgTag \o <<NL>> ELSE <<>>)

\* A title and an image that are not a list item, under a line of two backslashes:
\*     \\
\*     **活动标题**：F
\*     <img src="u">
FlatTitle == <<"F">>
FlatRun == <<BS, BS, NL>> \o TitleLabel \o <<"fwc">> \o FlatTitle \o <<NL>> \o ImgTag \o <<NL>>

\* What comes before the first activity: nothing, a blank line, a line of text, or
\* a title that is not a list item.
Preambles == {<<>>, <<NL>>, <<"p", NL>>, FlatRun}

RECURSIVE RenderItems(_)
RenderItems(its) ==
    IF its = <<>> THEN <<>>
    ELSE TitleLine(its[1]) \o BodyLines(its[1]) \o RenderItems(Tail(its))

RenderContent(c) == c.pre \o RenderItems(c.items)

----------------------------------------------------------------------------
(* SpecDetails: parse_activity_details on one content                      *)

\* To keep the long introductions few, only the first activity of a content of at
\* most two may have one.
Contents ==
    {c \in [pre : Preambles, items : SeqsUpTo(Items, MaxActs)] :
        \A k \in 1..Len(c.items) :
            (k > 1 \/ Len(c.items) > 2) => c.items[k].intro \notin {"full", "long"}}

\* No mode function has run.
NoRun ==
    /\ claim_result = <<"None">>
    /\ my_coupons = <<>>
    /\ calls = <<>>
    /\ exit_code = <<>>

Idle ==
    /\ NoRun
    /\ server_date = <<>>
    /\ now = DateTime(1, 1, 1)
    /\ matches = <<>>
    /\ i = 0
    /\ kept = <<>>
    /\ activities = <<>>
    /\ file = NoFile

InitDetails ==
    /\ mode = "details"
    /\ src \in Contents
    /\ text = RenderContent(src)
    /\ pc = "start"
    /\ result = <<>>
    /\ Idle

CallDetails ==
    /\ mode = "details"
    /\ pc = "start"
    /\ result' = parse_activity_details(text)
    /\ pc' = "done"
    /\ UNCHANGED <<mode, src, text, server_date, now, file, matches, i, kept, activities, run_vars>>

NextDetails == CallDetails

SpecDetails == InitDetails /\ [][NextDetails]_vars

----------------------------------------------------------------------------
(* SpecCalendar: parse_calendar_activities, one loop iteration per step    *)

\* A date section of a calendar text: a header line
\*     <hashes #><sp spaces>[<year>年]<month>月<day>日
\* and the activities of that day.  year = 0: the header has no year.  iso is the
\* date the header stands for, as an ISO string (the years of the headers without a
\* year are read in 2026, the year of every reference date below).
ItemA == [title |-> <<"A">>, intro |-> "none", img |-> FALSE]
ItemB == [title |-> <<"B">>, intro |-> "short", img |-> TRUE]

Sec(h, sp, y, m, d, iso, body) ==
    [hashes |-> h, sp |-> sp, year |-> y, month |-> m, day |-> d, iso |-> iso, body |-> body]

Iso0116 == <<"2", "0", "2", "6", "-", "0", "1", "-", "1", "6">>
Iso0117 == <<"2", "0", "2", "6", "-", "0", "1", "-", "1", "7">>
Iso0118 == <<"2", "0", "2", "6", "-", "0", "1", "-", "1", "8">>
Iso0429 == <<"2", "0", "2", "6", "-", "0", "4", "-", "2", "9">>
Iso0430 == <<"2", "0", "2", "6", "-", "0", "4", "-", "3", "0">>
NoIso == <<>>

CalSections ==
    { Sec(4, 1, 2026, 1, 16, Iso0116, <<ItemA>>),          \* #### 2026年1月16日
      Sec(4, 1, 2026, 1, 18, Iso0118, <<ItemA>>),          \* #### 2026年1月18日
      Sec(3, 1, 0, 1, 17, Iso0117, <<ItemA, ItemB>>),      \* ### 1月17日, two activities
      Sec(4, 1, 2026, 1, 18, Iso0118, <<>>),               \* #### 2026年1月18日, no activity
      Sec(4, 1, 2027, 1, 18, NoIso, <<ItemA>>),            \* #### 2027年1月18日
      Sec(4, 1, 0, 5, 1, NoIso, <<ItemA>>),                \* #### 5月1日
      Sec(4, 0, 0, 4, 30, Iso0430, <<ItemB>>),             \* ####4月30日
      Sec(4, 1, 0, 4, 31, NoIso, <<ItemA>>),               \* #### 4月31日 (no such day)
      Sec(4, 1, 0, 1, 0, NoIso, <<ItemA>>),                \* #### 1月0日 (no such day)
      Sec(0, 0, 0, 1, 18, Iso0118, <<ItemA>>),             \* 1月18日 (no heading marker)
      Sec(2, 1, 0, 1, 18, Iso0118, <<ItemB>>) }            \* ## 1月18日

HeaderLine(sec) ==
    Run("#", sec.hashes) \o Run(" ", sec.sp)
    \o (IF sec.year = 0 THEN <<>> ELSE IntToDigits(sec.year) \o <<"nian">>)
    \o IntToDigits(sec.month) \o <<"yue">> \o IntToDigits(sec.day) \o <<"ri">> \o <<NL>>

RenderSection(sec) == HeaderLine(sec) \o RenderItems(sec.body)

RECURSIVE RenderCalendar(_)
RenderCalendar(secs) ==
    IF secs = <<>> THEN <<>> ELSE RenderSection(secs[1]) \o RenderCalendar(Tail(secs))

\* The reference dates: the server's date, or none and the local clock.
ServerDates == {<<>>, Iso0117, Iso0429}
LocalNow == [year |-> 2026, month |-> 1, day |-> 17, hour |-> 13, minute |-> 5]

InitCalendar ==
    /\ mode = "calendar"
    /\ src \in SeqsUpTo(CalSections, MaxSections)
    /\ text = RenderCalendar(src)
    /\ server_date \in ServerDates
    /\ now = LocalNow
    /\ pc = "start"
    /\ matches = <<>>
    /\ i = 0
    /\ kept = <<>>
    /\ activities = <<>>
    /\ file = NoFile
    /\ result = <<>>
    /\ NoRun

\* current_date: the server's date when there is one, else datetime.now()
current_date == IF server_date # <<>> THEN Strptime(server_date) ELSE now

\* Mutant of NotExpired: the reference date compared with its time of day
NotExpired_WithTime(activity_date, current) == ~Before(activity_date, current)

\* not (activity_date < current_date.replace(hour=0, minute=0, second=0, microsecond=0))
NotExpired(activity_date, current) == ~Before(activity_date, Midnight(current))

\* Mutant of day_entries: the day is kept even with no activity
day_entries_KeepEmpty(year, month, day, activity_list) ==
    <<[date |-> FormatDate(year, month, day),
       count |-> Len(activity_list),
       activities |-> activity_list]>>

\* if activity_list: activities.append({...}): what is appended
day_entries(year, month, day, activity_list) ==
    IF activity_list # <<>>
    THEN <<[date |-> FormatDate(year, month, day),
            count |-> Len(activity_list),
            activities |-> activity_list]>>
    ELSE <<>>

\* Mutant of append_days: a day already in the list takes the new activities
append_days_Merged(acts, entries) ==
    IF entries # <<>> /\ \E n \in 1..Len(acts) : acts[n].date = entries[1].date
    THEN [n \in 1..Len(acts) |->
             IF acts[n].date = entries[1].date
             THEN [acts[n] EXCEPT !.activities = @ \o entries[1].activities,
                                  !.count = @ + entries[1].count]
             ELSE acts[n]]
    ELSE acts \o entries

\* activities.append(...)
append_days(acts, entries) == acts \o entries

\* Mutant of content_span: the span runs to the end of the text
content_span_ToEnd(t, ms, k) == Strip(Slice(t, ms[k].end, Len(t)))

\* text[start_pos:end_pos].strip() of the k-th match
content_span(t, ms, k) ==
    LET start_pos == ms[k].end
        end_pos == IF k + 1 <= Len(ms) THEN ms[k + 1].start ELSE Len(t) + 1
    IN Strip(Slice(t, start_pos, end_pos - 1))

\* if not text: return []; else the matches are found and the loop starts
CalendarEnter ==
    /\ mode = "calendar"
    /\ pc = "start"
    /\ IF text = <<>>
       THEN /\ pc' = "done"
            /\ result' = <<>>
            /\ UNCHANGED <<matches, i>>
       ELSE /\ pc' = "loop"
            /\ matches' = date_matches(text)
            /\ i' = 1
            /\ UNCHANGED result
    /\ UNCHANGED <<mode, src, text, server_date, now, file, kept, activities, run_vars>>

\* One iteration of  for i, match in enumerate(matches)
CalendarIterate ==
    /\ mode = "calendar"
    /\ pc = "loop"
    /\ i <= Len(matches)
    /\ LET match == matches[i]
           year  == IF match.year # <<>> THEN DigitsToInt(match.year) ELSE current_date.year
           month == DigitsToInt(match.month)
           day   == DigitsToInt(match.day)
       IN IF month # current_date.month \/ year # current_date.year
          THEN \* continue
               /\ i' = i + 1
               /\ UNCHANGED <<pc, kept, activities>>
          ELSE IF ~ValidDate(year, month, day)
          THEN \* datetime(year, month, day) raises ValueError, which nothing catches
               /\ pc' = "raised"
               /\ UNCHANGED <<i, kept, activities>>
          ELSE IF ~NotExpired(DateTime(year, month, day), current_date)
          THEN \* continue
               /\ i' = i + 1
               /\ UNCHANGED <<pc, kept, activities>>
          ELSE /\ activities' = append_days(activities,
                     day_entries(year, month, day,
                                 parse_activity_details(content_span(text, matches, i))))
               /\ kept' = Append(kept, i)
               /\ i' = i + 1
               /\ UNCHANGED pc
    /\ UNCHANGED <<mode, src, text, server_date, now, file, matches, result, run_vars>>

\* return activities
CalendarReturn ==
    /\ mode = "calendar"
    /\ pc = "loop"
    /\ i > Len(matches)
    /\ result' = activities
    /\ pc' = "done"
    /\ UNCHANGED <<mode, src, text, server_date, now, file, matches, i, kept, activities, run_vars>>

NextCalendar == CalendarEnter \/ CalendarIterate \/ CalendarReturn

SpecCalendar == InitCalendar /\ [][NextCalendar]_vars

----------------------------------------------------------------------------
(* Properties of parse_calendar_activities (under SpecCalendar)            *)

\* What the text contains, read off its description.

RECURSIVE HeadersFrom(_, _)
HeadersFrom(secs, k) ==
    IF k > Len(secs) THEN <<>>
    ELSE (IF secs[k].hashes >= 3 THEN <<k>> ELSE <<>>) \o HeadersFrom(secs, k + 1)

\* The sections whose header line has at least three heading markers, in order.
Headers == HeadersFrom(src, 1)

\* The section of the j-th of them.
SecOf(j) == src[Headers[j]]

\* The position in the text where the k-th section starts.
Offset(k) == Len(RenderCalendar(SubSeq(src, 1, k - 1))) + 1

RECURSIVE CountItems(_, _, _)
CountItems(secs, a, b) ==
    IF a > b THEN 0 ELSE Len(secs[a].body) + CountItems(secs, a + 1, b)

\* The activities listed between the j-th of these headers and the next of them.
ActsUnder(j) ==
    CountItems(src, Headers[j],
               IF j < Len(Headers) THEN Headers[j + 1] - 1 ELSE Len(src))

\* The reference date.
Ref ==
    IF server_date = Iso0117 THEN [year |-> 2026, month |-> 1, day |-> 17]
    ELSE IF server_date = Iso0429 THEN [year |-> 2026, month |-> 4, day |-> 29]
    ELSE [year |-> LocalNow.year, month |-> LocalNow.month, day |-> LocalNow.day]

\* The header's year and month are the reference date's and its day is not earlier.
Passes(sec) ==
    /\ (IF sec.year = 0 THEN Ref.year ELSE sec.year) = Ref.year
    /\ sec.month = Ref.month
    /\ sec.day >= Ref.day

\* The loop has started (or the function is over).
Entered == mode = "calendar" /\ pc # "start" /\ text # <<>>

\* The matches 1..Processed have gone through the loop body.
Processed == IF i = 0 THEN 0 ELSE i - 1

RECURSIVE ExpectedDays(_)
\* The days to emit for the first n headers: date and number of activities.
ExpectedDays(n) ==
    IF n = 0 THEN <<>>
    ELSE ExpectedDays(n - 1) \o
         (IF Passes(SecOf(n)) /\ ActsUnder(n) > 0
          THEN <<[date |-> SecOf(n).iso, count |-> ActsUnder(n)]>> ELSE <<>>)

\* C1: a header passes the filter exactly when its year and month are those of the
\* reference date and its date is not before the reference date (by the day, not the
\* time of day); every day emitted is such a header's date.
C1_MonthAndDateFilter ==
    Entered =>
        /\ \A j \in 1..Processed :
              (\E n \in 1..Len(kept) : kept[n] = j) <=> Passes(SecOf(j))
        /\ \A n \in 1..Len(activities) :
              \E j \in 1..Processed :
                  Passes(SecOf(j)) /\ activities[n].date = SecOf(j).iso
        /\ pc = "done" => (result = activities /\ Processed = Len(matches))

\* The header of the day before the reference date was dropped and the header of the
\* reference date itself kept, the local clock past noon.
C1_Witness ==
    /\ Entered /\ pc = "done"
    /\ server_date = <<>>
    /\ Len(matches) = 2
    /\ SecOf(1).day = 16 /\ SecOf(2).day = 17
    /\ kept = <<2>>
    /\ Len(result) = 1

\* C2: no extractor raises; a header that is no calendar date is skipped and the
\* remaining headers are processed.
C2_NeverRaises == pc # "raised"

\* C3: every day emitted has count = len(activities) >= 1, and a header that passes
\* the filter with no activity under it emits nothing.
C3_CountIsLength ==
    Entered =>
        /\ \A n \in 1..Len(activities) :
              /\ activities[n].count = Len(activities[n].activities)
              /\ activities[n].count >= 1
        /\ Len(activities) = Cardinality({n \in 1..Len(kept) : ActsUnder(kept[n]) > 0})
        /\ pc = "done" => result = activities

\* A header passed the filter with nothing under it and no day was emitted for it.
C3_Witness ==
    /\ Entered /\ pc = "done"
    /\ Len(kept) = 2
    /\ ActsUnder(kept[1]) = 0
    /\ Len(result) = 1

\* C4: the days emitted are, in the order of the text, one for each header that passes
\* the filter and has an activity under it: never sorted, never merged; a text
\* without header gives none.
C4_OnePerHeaderInOrder ==
    (mode = "calendar" /\ pc # "start") =>
        /\ Len(activities) = Len(ExpectedDays(Processed))
        /\ \A n \in 1..Len(activities) :
              /\ activities[n].date = ExpectedDays(Processed)[n].date
              /\ activities[n].count = ExpectedDays(Processed)[n].count
        /\ pc = "done" => (result = activities /\ Processed = Len(Headers))

\* Two days were emitted in the order of the text, the later date first.
C4_Witness ==
    /\ Entered /\ pc = "done"
    /\ Len(result) = 2
    /\ result[1].date = Iso0118
    /\ result[2].date = Iso0117

\* C5 as stated: a date header is matched whether or not heading markers precede it.
C5_Original == Entered => Len(matches) = Len(src)

\* C5 as amended: a date header is matched exactly when at least three heading
\* markers precede it; the matches are those headers, in order.
C5_NeedsThreeHashes ==
    Entered =>
        /\ Len(matches) = Len(Headers)
        /\ \A j \in 1..Len(matches) :
              /\ matches[j].start = Offset(Headers[j])
              /\ DigitsToInt(matches[j].month) = SecOf(j).month
              /\ DigitsToInt(matches[j].day) = SecOf(j).day
              /\ (matches[j].year = <<>>) = (SecOf(j).year = 0)

\* A header line without heading marker was not matched, one with #### after it was.
C5_Witness ==
    /\ Entered /\ pc = "done"
    /\ Len(src) = 2
    /\ src[1].hashes = 0 /\ src[2].hashes = 4
    /\ Len(matches) = 1
    /\ matches[1].start = Offset(2)

----------------------------------------------------------------------------
(* Properties of parse_activity_details (under SpecDetails)                *)

\* t.endswith(suffix)
EndsWith(t, suffix) ==
    Len(suffix) <= Len(t) /\ SubSeq(t, Len(t) - Len(suffix) + 1, Len(t)) = suffix

\* xs without its j-th element
Without(xs, j) == SubSeq(xs, 1, j - 1) \o SubSeq(xs, j + 1, Len(xs))

RECURSIVE RenderItemsLess(_, _)
\* The items rendered, the title line (marker and title) of the j-th left out.
RenderItemsLess(its, j) ==
    IF its = <<>> THEN <<>>
    ELSE (IF j = 1 THEN <<>> ELSE TitleLine(its[1])) \o BodyLines(its[1])
         \o RenderItemsLess(Tail(its), j - 1)

\* The content with the marker of the j-th activity and its title line removed.
ContentLess(c, j) == c.pre \o RenderItemsLess(c.items, j)

\* The records are one per marker, in the order of the markers.
OnePerMarker(records, its) ==
    /\ Len(records) = Len(its)
    /\ \A k \in 1..Len(its) : EndsWith(records[k].title, its[k].title)

\* C6 as stated: a content with k markers '- **活动标题**', each followed by a title
\* line that is not empty, gives k records in the order of the markers, and the
\* content with one marker and its title line removed gives the same records
\* without that marker's record, the others unchanged.  (Stated for the contents
\* that start with a line of text, so that every marker starts a line of its own.)
C6_Original ==
    (mode = "details" /\ pc = "done" /\ src.pre = <<"p", NL>>) =>
        /\ OnePerMarker(result, src.items)
        /\ \A j \in 1..Len(src.items) :
              parse_activity_details(ContentLess(src, j)) = Without(result, j)

\* C6 as amended: a content whose title labels are those of its k markers gives k
\* records in the order of the markers, and with one marker and its title line
\* removed, k - 1 records, one per remaining marker in their order.  (The remaining
\* records need not be unchanged.)
C6_CountAndOrder ==
    (mode = "details" /\ pc = "done" /\ src.pre # FlatRun) =>
        /\ OnePerMarker(result, src.items)
        /\ \A j \in 1..Len(src.items) :
              OnePerMarker(parse_activity_details(ContentLess(src, j)),
                           Without(src.items, j))

\* A content with two markers has been parsed into two records.
C6_Witness ==
    /\ mode = "details" /\ pc = "done"
    /\ Len(src.items) = 2
    /\ Len(result) = 2
    /\ result[1].title # result[2].title


\* The content field of a record for an introduction that reads as `clean`.
ContentFor(clean) ==
    IF Len(clean) <= MaxIntroLen THEN clean
    ELSE SubSeq(clean, 1, MaxIntroLen) \o Ellipsis

\* The second strategy produced the result: the content has a title and no list item.
ByFallback == src.items = <<>> /\ src.pre = FlatRun

\* C7: every record returned has a title that is not empty, and its content is the
\* cleaned introduction when that has at most 300 characters, and its first 300
\* characters followed by '...' when it is longer; a record of the second strategy
\* has an empty content.
C7_TitleAndContent ==
    (mode = "details" /\ pc = "done") =>
        \A k \in 1..Len(result) :
            /\ result[k].title # <<>>
            /\ IF ByFallback THEN result[k].content = <<>>
               ELSE /\ k <= Len(src.items)
                    /\ result[k].content = ContentFor(IntroClean(src.items[k].intro))

\* An introduction of more than 300 characters was cut to 300 and the ellipsis.
C7_Witness ==
    /\ mode = "details" /\ pc = "done"
    /\ result # <<>>
    /\ src.items # <<>>
    /\ src.items[1].intro = "long"
    /\ Len(result[1].content) = MaxIntroLen + Len(Ellipsis)

\* The second strategy gave a record.
C7_WitnessFallback ==
    /\ mode = "details" /\ pc = "done"
    /\ ByFallback
    /\ Len(result) = 1
    /\ result[1].title = FlatTitle

----------------------------------------------------------------------------
(* SpecClaim: parse_claim_result on one response                           *)

\* A response: [a phrase] [成功：<n>] [失败：<m>] [**name** ...] [a phrase], the parts
\* separated by spaces.  succ or fail = -1: the label is not there.
CouponNames == {<<"you1", "hui", "A">>, <<"you1", "hui", "B">>, <<"you1", "hui", "C">>}

Phrases == {"none", "claim failed", "nothing to claim"}

PhraseText(ph) ==
    CASE ph = "claim failed" -> LingQuanShiBai
      [] ph = "nothing to claim" -> NoCouponMessage
      [] OTHER -> <<>>

Responses ==
    {r \in [succ : {-1, 0, 1, 3}, fail : {-1, 1}, bolds : SeqsUpTo(CouponNames, MaxBold),
            phrase : Phrases, front : BOOLEAN] :
        r.phrase = "none" => r.front}

ResponseParts(r) ==
    (IF r.phrase # "none" /\ r.front THEN <<PhraseText(r.phrase)>> ELSE <<>>)
    \o (IF r.succ >= 0 THEN <<ChengGong \o <<"fwc">> \o IntToDigits(r.succ)>> ELSE <<>>)
    \o (IF r.fail >= 0 THEN <<ShiBai \o <<"fwc">> \o IntToDigits(r.fail)>> ELSE <<>>)
    \o [k \in 1..Len(r.bolds) |-> Stars \o r.bolds[k] \o Stars]
    \o (IF r.phrase # "none" /\ ~r.front THEN <<PhraseText(r.phrase)>> ELSE <<>>)

RECURSIVE JoinWords(_)
\* " ".join(parts)
JoinWords(parts) ==
    IF parts = <<>> THEN <<>>
    ELSE IF Len(parts) = 1 THEN parts[1]
    ELSE parts[1] \o <<" ">> \o JoinWords(Tail(parts))

RenderResponse(r) == JoinWords(ResponseParts(r))

InitClaim ==
    /\ mode = "claim"
    /\ src \in Responses
    /\ text = RenderResponse(src)
    /\ pc = "start"
    /\ result = <<>>
    /\ Idle

CallClaim ==
    /\ mode = "claim"
    /\ pc = "start"
    /\ result' = parse_claim_result(text)
    /\ pc' = "done"
    /\ UNCHANGED <<mode, src, text, server_date, now, file, matches, i, kept, activities, run_vars>>

NextClaim == CallClaim

SpecClaim == InitClaim /\ [][NextClaim]_vars

\* C8: a result with a message has zero counts and no coupon, and a response with
\* one of the two phrases gives the message 暂无可领取的优惠券 with zero counts, whatever
\* labels and bold spans it has.
C8_MessageSupersedes ==
    (mode = "claim" /\ pc = "done") =>
        /\ result.message # <<>> =>
              (result.success = 0 /\ result.failed = 0 /\ result.coupons = <<>>)
        /\ src.phrase # "none" =>
              result = [success |-> 0, failed |-> 0, coupons |-> <<>>,
                        message |-> NoCouponMessage]

\* A response with a phrase after 成功：3, 失败：1 and a bold span was parsed.
C8_Witness ==
    /\ mode = "claim" /\ pc = "done"
    /\ src.phrase = "claim failed" /\ ~src.front
    /\ src.succ = 3 /\ src.fail = 1 /\ Len(src.bolds) = 1
    /\ result.message = NoCouponMessage

\* C9: without phrase, success and failed are the integers after the labels (0
\* without label) and coupons the first `success` bold spans in order, so there are
\* at most `success` coupons; 成功：3 失败：1 **优惠A** **优惠B** **优惠C** gives 3, 1
\* and the three names.
C9_CountsAndCoupons ==
    (mode = "claim" /\ pc = "done") =>
        /\ Len(result.coupons) <= result.success
        /\ src.phrase = "none" =>
              /\ result.success = (IF src.succ >= 0 THEN src.succ ELSE 0)
              /\ result.failed = (IF src.fail >= 0 THEN src.fail ELSE 0)
              /\ result.coupons =
                    SubSeq(src.bolds, 1,
                           IF result.success < Len(src.bolds)
                           THEN result.success ELSE Len(src.bolds))
              /\ result.message = <<>>

\* 成功：3 失败：1 **优惠A** **优惠B** **优惠C** was parsed, and so was a response with
\* more bold spans than successes.
C9_Witness ==
    /\ mode = "claim" /\ pc = "done"
    /\ text = ChengGong \o <<"fwc", "3", " ">> \o ShiBai \o <<"fwc", "1", " ">>
              \o Stars \o <<"you1", "hui", "A">> \o Stars \o <<" ">>
              \o Stars \o <<"you1", "hui", "B">> \o Stars \o <<" ">>
              \o Stars \o <<"you1", "hui", "C">> \o Stars
    /\ result = [success |-> 3, failed |-> 1,
                 coupons |-> << <<"you1", "hui", "A">>, <<"you1", "hui", "B">>,
                                <<"you1", "hui", "C">> >>,
                 message |-> <<>>]

----------------------------------------------------------------------------
(* SpecCoupons: parse_my_coupons on one listing                            *)

\* A coupon of a listing: its heading and, when it has them, a price line, a validity
\* line and an image line
\*     ## <title>
\*     **优惠**：¥<price>
\*     **有效期**：<validity>
\*     <img src="u">
PriceKinds == {"none", "whole", "decimal"}

PriceText(kind) == IF kind = "whole" THEN <<"5">> ELSE <<"1", "2", ".", "5">>

ValidityText == <<"1", "-", "3", "1">>

CouponDescs == [title : {<<"A">>, <<"B">>}, price : PriceKinds, validity : BOOLEAN, img : BOOLEAN]

RenderCoupon(c) ==
    Hashes2 \o <<" ">> \o c.title \o <<NL>>
    \o (IF c.price = "none" THEN <<>>
        ELSE PriceLabel \o <<"fwc", "yen">> \o PriceText(c.price) \o <<NL>>)
    \o (IF c.validity THEN ValidityLabel \o <<"fwc">> \o ValidityText \o <<NL>> ELSE <<>>)
    \o (IF c.img THEN ImgTag \o <<NL>> ELSE <<>>)

RECURSIVE RenderCoupons(_)
RenderCoupons(cs) ==
    IF cs = <<>> THEN <<>> ELSE RenderCoupon(cs[1]) \o RenderCoupons(Tail(cs))

\* The line above the first coupon: none, or a level-1 heading.
ListingHeads == {<<>>, <<"#", " ", "m", NL, NL>>}

RenderListing(l) == l.head \o RenderCoupons(l.coupons)

InitCoupons ==
    /\ mode = "coupons"
    /\ src \in [head : ListingHeads, coupons : SeqsUpTo(CouponDescs, MaxCoupons)]
    /\ text = RenderListing(src)
    /\ pc = "start"
    /\ result = <<>>
    /\ Idle

CallCoupons ==
    /\ mode = "coupons"
    /\ pc = "start"
    /\ result' = parse_my_coupons(text)
    /\ pc' = "done"
    /\ UNCHANGED <<mode, src, text, server_date, now, file, matches, i, kept, activities, run_vars>>

NextCoupons == CallCoupons

SpecCoupons == InitCoupons /\ [][NextCoupons]_vars

\* The record of a coupon, its missing fields at their defaults.
ExpectedCoupon(c) ==
    [title |-> c.title,
     price |-> IF c.price = "none" THEN <<"0">> ELSE PriceText(c.price),
     validity |-> IF c.validity THEN ValidityText ELSE <<"wei", "zhi">>,
     img |-> IF c.img THEN ImgUrl ELSE <<>>]

\* C10: a missing field does not drop a record: there is one record per coupon, with
\* price "0" without price label, validity 未知 without validity label and an empty img
\* without image, the other fields as written.
C10_MissingFieldDefaults ==
    (mode = "coupons" /\ pc = "done") =>
        /\ Len(result) = Len(src.coupons)
        /\ \A k \in 1..Len(result) : result[k] = ExpectedCoupon(src.coupons[k])

\* Two coupons, the first without price and the second without validity, gave two
\* records with the defaults.
C10_Witness ==
    /\ mode = "coupons" /\ pc = "done"
    /\ Len(src.coupons) = 2
    /\ src.coupons[1].price = "none" /\ src.coupons[1].validity
    /\ src.coupons[2].price # "none" /\ ~src.coupons[2].validity
    /\ Len(result) = 2
    /\ result[1].price = <<"0">>
    /\ result[2].validity = <<"wei", "zhi">>

----------------------------------------------------------------------------
(* SpecListing: parse_my_coupons on listings of any lines                  *)

MaxLines == 3       \* lines in a listing

\* A line of a listing: a level-2 heading with title A or B, a level-2 heading
\* without title ("## "), a level-3 heading ("### S"), a price line or a line of text.
LineKinds == {"A", "B", "untitled", "sub", "price", "note"}

SubTitle == <<"S">>

LineText(kind) ==
    CASE kind = "A" -> Hashes2 \o <<" ", "A">>
      [] kind = "B" -> Hashes2 \o <<" ", "B">>
      [] kind = "untitled" -> Hashes2 \o <<" ">>
      [] kind = "sub" -> <<"#">> \o Hashes2 \o <<" ">> \o SubTitle
      [] kind = "price" -> PriceLabel \o <<"fwc", "yen">> \o PriceText("whole")
      [] OTHER -> <<"t">>

RECURSIVE RenderLines(_, _)
\* The lines, each ended by a line break, the last one only if `closed`.
RenderLines(ls, closed) ==
    IF ls = <<>> THEN <<>>
    ELSE LineText(ls[1])
         \o (IF Len(ls) > 1 \/ closed THEN <<NL>> ELSE <<>>)
         \o RenderLines(Tail(ls), closed)

InitListing ==
    /\ mode = "coupons"
    /\ src \in {l \in [lines : SeqsUpTo(LineKinds, MaxLines), closed : BOOLEAN] :
                    l.lines = <<>> => l.closed}
    /\ text = RenderLines(src.lines, src.closed)
    /\ pc = "start"
    /\ result = <<>>
    /\ Idle

SpecListing == InitListing /\ [][NextCoupons]_vars

RECURSIVE TitlesOf(_)
\* The titles of the level-2 headings among the lines, in order.
TitlesOf(ls) ==
    IF ls = <<>> THEN <<>>
    ELSE (IF ls[1] \in {"A", "B"} THEN <<<<ls[1]>>>> ELSE <<>>) \o TitlesOf(Tail(ls))

Among(kinds) == \A k \in 1..Len(src.lines) : src.lines[k] \in kinds

\* C11: the records are one per level-2 heading, in the order of the headings, whether
\* or not the last line of the text ends with a line break.  (Stated for the listings
\* whose headings are all level-2 headings with a title.)
C11_OnePerHeading ==
    (mode = "coupons" /\ pc = "done" /\ Among({"A", "B", "price", "note"})) =>
        [k \in 1..Len(result) |-> result[k].title] = TitlesOf(src.lines)

\* C12: every record has a title that is not empty.
C12_TitleNotEmpty ==
    (mode = "coupons" /\ pc = "done") =>
        \A k \in 1..Len(result) : result[k].title # <<>>

\* C19: a level-3 heading starts no section and gives no record: there are as many
\* records as level-2 headings.  (Stated for the listings whose last line ends with a
\* line break and whose level-2 headings have a title.)
C19_OnlyLevelTwo ==
    (mode = "coupons" /\ pc = "done" /\ src.closed /\ Among({"A", "B", "sub", "price", "note"})) =>
        Len(result) = Len(TitlesOf(src.lines))

----------------------------------------------------------------------------
(* SpecClean: clean_text, applied once and again, and the newline          *)
(* normalisation of parse_activity_details, on one text                    *)

MaxLen == 6         \* characters in a text to clean

\* The characters of the texts: the backslash, the letter n (an escaped newline after
\* a backslash, a letter of a word otherwise), the blank and the newline.
CleanChars == {BS, "n", " ", NL}

InitClean ==
    /\ mode = "clean"
    /\ src \in SeqsUpTo(CleanChars, MaxLen)
    /\ text = src
    /\ pc = "start"
    /\ result = <<>>
    /\ Idle

\* clean_text(text), and content.replace(...) of parse_activity_details on the same text
CallClean ==
    /\ mode = "clean"
    /\ pc = "start"
    /\ result' = [cleaned |-> clean_text(text),
                  normalized |-> normalize_newlines(text),
                  again |-> <<>>]
    /\ pc' = "done"
    /\ UNCHANGED <<mode, src, text, server_date, now, file, matches, i, kept, activities, run_vars>>

\* clean_text on the text clean_text returned
CallCleanAgain ==
    /\ mode = "clean"
    /\ pc = "done"
    /\ result' = [result EXCEPT !.again = clean_text(result.cleaned)]
    /\ pc' = "again"
    /\ UNCHANGED <<mode, src, text, server_date, now, file, matches, i, kept, activities, run_vars>>

NextClean == CallClean \/ CallCleanAgain

SpecClean == InitClean /\ [][NextClean]_vars

\* C13: clean_text(clean_text(text)) = clean_text(text).
C13_Idempotent ==
    (mode = "clean" /\ pc = "again") => result.again = result.cleaned

\* A text with an escaped newline, a blank line and a backslash before a blank was
\* cleaned twice.
C13_Witness ==
    /\ mode = "clean" /\ pc = "again"
    /\ text = <<"n", BS, "n", NL, BS, " ">>
    /\ result.cleaned = <<"n">>
    /\ result.again = <<"n">>

\* The text has no backslash but those of single-escaped (\n) and double-escaped (\\n)
\* newlines.
OnlyEscapedNewlines(t) ==
    ~Contains(str_replace(str_replace(t, <<BS, BS, "n">>, <<>>), <<BS, "n">>, <<>>), <<BS>>)

\* C20: in a text whose backslashes are those of single- and double-escaped newlines,
\* each escape becomes one newline and no backslash is left, by clean_text and by the
\* normalisation at the start of parse_activity_details.
C20_NoStrayBackslash ==
    (mode = "clean" /\ pc = "done" /\ OnlyEscapedNewlines(text)) =>
        /\ ~Contains(result.cleaned, <<BS>>)
        /\ result.normalized =
              str_replace(str_replace(text, <<BS, BS, "n">>, <<NL>>), <<BS, "n">>, <<NL>>)

----------------------------------------------------------------------------
(* html_escape                                                             *)

Amp == <<"&", "a", "m", "p", ";">>
Lt == <<"&", "l", "t", ";">>
Gt == <<"&", "g", "t", ";">>
Quot == <<"&", "q", "u", "o", "t", ";">>

\* Mutant of html_escape: the ampersand is replaced last
html_escape_AmpersandLast(t) ==
    IF t = <<>> THEN <<>>
    ELSE LET t1 == str_replace(t, <<"<">>, Lt)
             t2 == str_replace(t1, <<">">>, Gt)
             t3 == str_replace(t2, <<QUOTE>>, Quot)
         IN str_replace(t3, <<"&">>, Amp)

html_escape(t) ==
    IF t = <<>> THEN <<>>
    ELSE LET t1 == str_replace(t, <<"&">>, Amp)
             t2 == str_replace(t1, <<"<">>, Lt)
             t3 == str_replace(t2, <<">">>, Gt)
         IN str_replace(t3, <<QUOTE>>, Quot)

(* SpecEscape: html_escape on one text                                     *)

MaxRaw == 4         \* characters in a text to escape

\* The four characters html_escape replaces, and the characters of an entity.
RawChars == {"&", "<", ">", QUOTE, "l", "t", ";"}

InitEscape ==
    /\ mode = "escape"
    /\ src \in SeqsUpTo(RawChars, MaxRaw)
    /\ text = src
    /\ pc = "start"
    /\ result = <<>>
    /\ Idle

CallEscape ==
    /\ mode = "escape"
    /\ pc = "start"
    /\ result' = html_escape(text)
    /\ pc' = "done"
    /\ UNCHANGED <<mode, src, text, server_date, now, file, matches, i, kept, activities, run_vars>>

NextEscape == CallEscape

SpecEscape == InitEscape /\ [][NextEscape]_vars

\* What a character of the input is to become.
Escaped(c) ==
    CASE c = "&" -> Amp
      [] c = "<" -> Lt
      [] c = ">" -> Gt
      [] c = QUOTE -> Quot
      [] OTHER -> <<c>>

\* C14: the output is the input with each '&', '<', '>' and '"' replaced by its entity,
\* once, and every other character as it was; it has no '<', '>' or '"'.
C14_EscapesFourOnce ==
    (mode = "escape" /\ pc = "done") =>
        /\ result = Flatten([k \in 1..Len(text) |-> Escaped(text[k])])
        /\ \A k \in 1..Len(result) : result[k] \notin {"<", ">", QUOTE}

\* '<' became '&lt;' in a text that also has an ampersand and a quote.
C14_Witness ==
    /\ mode = "escape" /\ pc = "done"
    /\ text = <<"&", "<", QUOTE, ">">>
    /\ result = Amp \o Lt \o Quot \o Gt

----------------------------------------------------------------------------
(* save_calendar_data and load_calendar_data                               *)

\* Python's None (in a place where a text may stand).
None == <<"None">>

KeyUpdatedAt == <<"u", "p", "d", "a", "t", "e", "d", "_", "a", "t">>
KeyServerDate == <<"s", "e", "r", "v", "e", "r", "_", "d", "a", "t", "e">>
KeyActivities == <<"a", "c", "t", "i", "v", "i", "t", "i", "e", "s">>
KeyDate == <<"d", "a", "t", "e">>
KeyCount == <<"c", "o", "u", "n", "t">>
KeyTitle == <<"t", "i", "t", "l", "e">>
KeyContent == <<"c", "o", "n", "t", "e", "n", "t">>
KeyImg == <<"i", "m", "g">>
Null == <<"n", "u", "l", "l">>

\* json.dump(..., ensure_ascii=False): a character inside a string
EscapeChar(c) ==
    CASE c = QUOTE -> <<BS, QUOTE>>
      [] c = BS -> <<BS, BS>>
      [] c = NL -> <<BS, "n">>
      [] OTHER -> <<c>>

EncodeString(str) == <<QUOTE>> \o Flatten([k \in 1..Len(str) |-> EscapeChar(str[k])]) \o <<QUOTE>>

\* indent=2: a new line and two blanks per level
Indent(level) == <<NL>> \o Run(" ", 2 * level)

RECURSIVE JoinItems(_, _)
\* The encoded items, each on a line of its own, with commas between them.
JoinItems(items, level) ==
    IF items = <<>> THEN <<>>
    ELSE Indent(level) \o items[1]
         \o (IF Len(items) > 1 THEN <<",">> ELSE <<>>)
         \o JoinItems(Tail(items), level)

\* A list of encoded items, itself at `level`.
EncodeList(items, level) ==
    IF items = <<>> THEN <<"[", "]">>
    ELSE <<"[">> \o JoinItems(items, level + 1) \o Indent(level) \o <<"]">>

\* A dict given by its <<key, encoded value>> pairs in order, itself at `level`.
EncodeObject(pairs, level) ==
    <<"{">>
    \o JoinItems([k \in 1..Len(pairs) |-> EncodeString(pairs[k][1]) \o <<":", " ">> \o pairs[k][2]],
                 level + 1)
    \o Indent(level) \o <<"}">>

EncodeActivity(a, level) ==
    EncodeObject(<< <<KeyTitle, EncodeString(a.title)>>,
                    <<KeyContent, EncodeString(a.content)>>,
                    <<KeyImg, EncodeString(a.img)>> >>, level)

EncodeDay(d, level) ==
    EncodeObject(<< <<KeyDate, EncodeString(d.date)>>,
                    <<KeyCount, IntToDigits(d.count)>>,
                    <<KeyActivities,
                      EncodeList([k \in 1..Len(d.activities) |->
                                     EncodeActivity(d.activities[k], level + 2)], level + 1)>> >>,
                 level)

\* datetime.now().strftime("%Y-%m-%d %H:%M:%S"); `now` has no seconds: 00 is written
UpdatedAt(n) ==
    FormatDate(n.year, n.month, n.day) \o <<" ">> \o Pad2(n.hour) \o <<":">> \o Pad2(n.minute)
    \o <<":", "0", "0">>

\* json.dump(data, f, ensure_ascii=False, indent=2) of save_calendar_data: the text written
json_dump(calendar_data, date, n) ==
    EncodeObject(<< <<KeyUpdatedAt, EncodeString(UpdatedAt(n))>>,
                    <<KeyServerDate, IF date = None THEN Null ELSE EncodeString(date)>>,
                    <<KeyActivities,
                      EncodeList([k \in 1..Len(calendar_data) |-> EncodeDay(calendar_data[k], 2)], 1)>> >>,
                 0)

\* Mutant of Decoded: an escaped n is read as the letter n
Decoded_Letter(c) == c

\* json.load: the character an escape \c stands for
Decoded(c) == IF c = "n" THEN NL ELSE c

RECURSIVE StringEnd(_, _)
\* The position of the quote that closes a string whose characters start at q.
StringEnd(f, q) ==
    LET m == Min({r \in q..Len(f) : f[r] \in {BS, QUOTE}})
    IN IF f[m] = QUOTE THEN m ELSE StringEnd(f, m + 2)

RECURSIVE Unescape(_)
Unescape(str) ==
    LET q == Find(str, <<BS>>, 1)
    IN IF q = 0 THEN str
       ELSE Slice(str, 1, q - 1) \o <<Decoded(str[q + 1])>> \o Unescape(Slice(str, q + 2, Len(str)))

RECURSIVE ParseValue(_, _)
RECURSIVE ParseItems(_, _)
RECURSIVE ParseMembers(_, _)

\* The values of a list from position q on, up to its "]".
ParseItems(f, q) ==
    LET v == ParseValue(f, q)
        r == SkipSpace(f, v.next)
    IN IF f[r] = ","
       THEN LET rest == ParseItems(f, SkipSpace(f, r + 1))
            IN [val |-> <<v.val>> \o rest.val, next |-> rest.next]
       ELSE [val |-> <<v.val>>, next |-> r + 1]

\* The <<key, value>> pairs of a dict from position q on, up to its "}".
ParseMembers(f, q) ==
    LET key == ParseValue(f, q)
        c == SkipSpace(f, key.next)
        v == ParseValue(f, SkipSpace(f, c + 1))
        r == SkipSpace(f, v.next)
    IN IF f[r] = ","
       THEN LET rest == ParseMembers(f, SkipSpace(f, r + 1))
            IN [val |-> <<<<key.val, v.val>>>> \o rest.val, next |-> rest.next]
       ELSE [val |-> <<<<key.val, v.val>>>>, next |-> r + 1]

\* The value that starts at position p and the position after it: a string (a text), a
\* number, null (None), a list (a sequence) or a dict (a function of its keys, a later
\* pair of the same key winning).
ParseValue(f, p) ==
    CASE f[p] = QUOTE ->
            LET e == StringEnd(f, p + 1)
            IN [val |-> Unescape(Slice(f, p + 1, e - 1)), next |-> e + 1]
      [] f[p] = "[" ->
            LET q == SkipSpace(f, p + 1)
            IN IF f[q] = "]" THEN [val |-> <<>>, next |-> q + 1] ELSE ParseItems(f, q)
      [] f[p] = "{" ->
            LET ms == ParseMembers(f, SkipSpace(f, p + 1))
                keys == {ms.val[k][1] : k \in 1..Len(ms.val)}
            IN [val |-> [key \in keys |->
                            ms.val[Max({k \in 1..Len(ms.val) : ms.val[k][1] = key})][2]],
                next |-> ms.next]
      [] StartsWithAt(f, p, Null) -> [val |-> None, next |-> p + Len(Null)]
      [] OTHER ->
            LET e == SkipDigits(f, p)
            IN [val |-> DigitsToInt(Slice(f, p, e - 1)), next |-> e]

\* json.load(f) of a file save_calendar_data wrote
json_load(f) == ParseValue(f, SkipSpace(f, 1)).val

\* load_calendar_data(): None without file (FileNotFoundError) and for an empty file
\* (json.load raises, caught)
load_calendar_data(f) == IF f = NoFile \/ f = <<>> THEN None ELSE json_load(f)

(* SpecSnapshot: save_calendar_data, then load_calendar_data               *)

MaxDays == 2        \* days in the calendar data to save

\* Activities as parse_activity_details returns them: a plain one, one with a quote, a
\* comma and a brace in the title and a newline in the content, one with backslashes
\* (a title that ends with one).
PlainActivity == [title |-> <<"A">>, content |-> <<>>, img |-> <<>>]
QuotedActivity == [title |-> <<"a", QUOTE, ",", "}">>, content |-> <<"x", NL, "y">>, img |-> <<"u">>]
BackslashActivity == [title |-> <<"a", BS>>, content |-> <<BS, QUOTE, "n">>, img |-> <<"u", BS, "n">>]

Iso0119 == <<"2", "0", "2", "6", "-", "0", "1", "-", "1", "9">>

\* The day entries parse_calendar_activities appends: a date, and count = len(activities) > 0.
DayEntries ==
    {[date |-> d, count |-> Len(as), activities |-> as] :
        d \in {Iso0117, Iso0119},
        as \in {<<PlainActivity>>, <<QuotedActivity>>, <<BackslashActivity>>,
                <<QuotedActivity, BackslashActivity>>}}

InitSnapshot ==
    /\ mode = "snapshot"
    /\ src \in SeqsUpTo(DayEntries, MaxDays)
    /\ activities = src
    /\ server_date \in {None, Iso0117}
    /\ now = LocalNow
    /\ file \in {NoFile, <<>>}
    /\ text = <<>>
    /\ pc = "start"
    /\ matches = <<>>
    /\ i = 0
    /\ kept = <<>>
    /\ result = <<>>
    /\ NoRun

\* save_calendar_data(calendar_data, server_date): the file is written and True returned
SaveCalendar ==
    /\ mode = "snapshot"
    /\ pc = "start"
    /\ file' = json_dump(activities, server_date, now)
    /\ result' = TRUE
    /\ pc' = "saved"
    /\ UNCHANGED <<mode, src, text, server_date, now, matches, i, kept, activities, run_vars>>

\* save_calendar_data: open or write raises; the file is as it was or empty, False is
\* returned
SaveCalendarFails ==
    /\ mode = "snapshot"
    /\ pc = "start"
    /\ file' \in {file, <<>>}
    /\ result' = FALSE
    /\ pc' = "not saved"
    /\ UNCHANGED <<mode, src, text, server_date, now, matches, i, kept, activities, run_vars>>

\* load_calendar_data()
LoadCalendar ==
    /\ mode = "snapshot"
    /\ pc \in {"saved", "not saved"}
    /\ result' = load_calendar_data(file)
    /\ pc' = IF pc = "saved" THEN "loaded" ELSE "loaded unsaved"
    /\ UNCHANGED <<mode, src, text, server_date, now, file, matches, i, kept, activities, run_vars>>

NextSnapshot == SaveCalendar \/ SaveCalendarFails \/ LoadCalendar

SpecSnapshot == InitSnapshot /\ [][NextSnapshot]_vars

\* The activity and the day entry that loaded dicts stand for.
AsActivity(o) == [title |-> o[KeyTitle], content |-> o[KeyContent], img |-> o[KeyImg]]

AsDay(o) ==
    [date |-> o[KeyDate], count |-> o[KeyCount],
     activities |-> [k \in 1..Len(o[KeyActivities]) |-> AsActivity(o[KeyActivities][k])]]

\* C15: after a save that succeeded, load_calendar_data returns a dict whose
\* 'activities' are the saved day entries, equal in date, count and each activity's
\* title, content and img, in order, and whose 'server_date' is the saved one.
C15_RoundTrip ==
    (mode = "snapshot" /\ pc = "loaded") =>
        /\ result # None
        /\ DOMAIN result = {KeyUpdatedAt, KeyServerDate, KeyActivities}
        /\ result[KeyServerDate] = server_date
        /\ Len(result[KeyActivities]) = Len(activities)
        /\ \A k \in 1..Len(activities) :
              /\ DOMAIN result[KeyActivities][k] = {KeyDate, KeyCount, KeyActivities}
              /\ \A j \in 1..Len(result[KeyActivities][k][KeyActivities]) :
                    DOMAIN result[KeyActivities][k][KeyActivities][j]
                        = {KeyTitle, KeyContent, KeyImg}
              /\ AsDay(result[KeyActivities][k]) = activities[k]

\* Two days, with quotes, newlines and backslashes in their texts, were saved and
\* loaded.
C15_Witness ==
    /\ mode = "snapshot" /\ pc = "loaded"
    /\ Len(activities) = 2
    /\ activities[1].activities = <<QuotedActivity, BackslashActivity>>
    /\ activities[2].activities = <<PlainActivity>>
    /\ server_date = Iso0117
    /\ Len(result[KeyActivities]) = 2
    /\ result[KeyActivities][1][KeyActivities][2][KeyTitle] = <<"a", BS>>

----------------------------------------------------------------------------
(* The content span of a header (under SpecCalendar)                       *)

RECURSIVE ItemsIn(_, _, _)
ItemsIn(secs, a, b) ==
    IF a > b THEN <<>> ELSE secs[a].body \o ItemsIn(secs, a + 1, b)

\* The activities listed between the j-th matched header and the next matched header
\* (or the end of the text).
ItemsUnder(j) ==
    ItemsIn(src, Headers[j], IF j < Len(Headers) THEN Headers[j + 1] - 1 ELSE Len(src))

\* The headers that were retained and have an activity under them, in order.
Emitting == SelectSeq(kept, LAMBDA j : ActsUnder(j) > 0)

\* C16: the activities of a day emitted are those listed between its header and the
\* next matched header, whether that one is retained or discarded, and no others.
C16_OwnSpanOnly ==
    Entered =>
        /\ Len(activities) = Len(Emitting)
        /\ \A n \in 1..Len(activities) :
              OnePerMarker(activities[n].activities, ItemsUnder(Emitting[n]))

\* A retained header with two activities was followed by a header of another year
\* with an activity, and by nothing else: the one day emitted has the two.
C16_Witness ==
    /\ Entered /\ pc = "done"
    /\ Len(matches) = 2
    /\ kept = <<1>>
    /\ Len(SecOf(1).body) = 2
    /\ SecOf(2).year = 2027 /\ Len(SecOf(2).body) = 1
    /\ Len(result) = 1
    /\ result[1].count = 2

----------------------------------------------------------------------------
(* SpecFlat: parse_activity_details on contents with titles that are not   *)
(* list items                                                              *)

MaxParts == 3       \* lines after the first line of such a content

\* The first line of the content: none, a line of two backslashes (which clean_text
\* empties) or a line of text.
Leads == {"none", "escape", "text"}

LeadLine(lead) ==
    CASE lead = "escape" -> <<BS, BS, NL>>
      [] lead = "text" -> <<"p", NL>>
      [] OTHER -> <<>>

\* The lines after it: a labelled title that is no list item (**活动标题**：A), an
\* image tag, or a list item (- **活动标题**：C).
FlatParts == {"A", "B", "u", "v", "item"}

ItemTitle == <<"C">>

PartLine(part) ==
    CASE part \in {"A", "B"} -> TitleLabel \o <<"fwc", part, NL>>
      [] part \in {"u", "v"} -> ImgOpen \o <<" ">> \o SrcAttr \o <<part, QUOTE, ">", NL>>
      [] OTHER -> <<"-", " ">> \o TitleLabel \o <<"fwc">> \o ItemTitle \o <<NL>>

RenderFlat(c) == LeadLine(c.lead) \o Flatten([k \in 1..Len(c.parts) |-> PartLine(c.parts[k])])

InitFlat ==
    /\ mode = "details"
    /\ src \in [lead : Leads, parts : SeqsUpTo(FlatParts, MaxParts)]
    /\ text = RenderFlat(src)
    /\ pc = "start"
    /\ result = <<>>
    /\ Idle

SpecFlat == InitFlat /\ [][NextDetails]_vars

\* The parts of the given kinds, in order.
PartsAmong(kinds) == SelectSeq(src.parts, LAMBDA part : part \in kinds)

\* C17: when the content starts with the label **活动标题**, the label is stripped: the
\* title of the first record is the text after the label and the colon.
C17_LabelStripped ==
    (mode = "details" /\ pc = "done" /\ src.lead = "none"
        /\ src.parts # <<>> /\ src.parts[1] \in {"A", "B"}) =>
        /\ result # <<>>
        /\ result[1].title = <<src.parts[1]>>
        /\ ~Contains(result[1].title, TitleLabel)

\* The first strategy finds nothing: the first line cleans to nothing and there is no
\* list item.
PrimaryFindsNothing == src.lead = "escape" /\ PartsAmong({"item"}) = <<>>

\* C18: when the first strategy finds nothing, the records are one per labelled title,
\* in order, the n-th with the n-th image of the content, or with no image past the
\* last image, all with an empty content; in every other content (the first strategy
\* gives records, or the content has a first line and no list item) no record is one
\* the second strategy makes of a labelled title.
C18_FallbackOnlyAlone ==
    (mode = "details" /\ pc = "done") =>
        IF PrimaryFindsNothing
        THEN /\ Len(result) = Len(PartsAmong({"A", "B"}))
             /\ \A n \in 1..Len(result) :
                   result[n] = [title |-> <<PartsAmong({"A", "B"})[n]>>,
                                content |-> <<>>,
                                img |-> IF n <= Len(PartsAmong({"u", "v"}))
                                        THEN <<PartsAmong({"u", "v"})[n]>> ELSE <<>>]
        ELSE \A n \in 1..Len(result) : result[n].title \notin {<<"A">>, <<"B">>}

\* Two labelled titles and one image between them, the second strategy at work: the
\* first title has the image, the second none.
C18_Witness ==
    /\ mode = "details" /\ pc = "done"
    /\ src.lead = "escape"
    /\ src.parts = <<"A", "u", "B">>
    /\ result = <<[title |-> <<"A">>, content |-> <<>>, img |-> <<"u">>],
                  [title |-> <<"B">>, content |-> <<>>, img |-> <<>>]>>

----------------------------------------------------------------------------
(* generate_cron_schedule                                                  *)

\* A field of one or two digits with a value in lo..hi (the alternatives of %m and %d:
\* 1[0-2]|0[1-9]|[1-9] and 3[01]|[12]\d|0[1-9]|[1-9]).
NumberField(fld, lo, hi) ==
    /\ Len(fld) \in {1, 2}
    /\ \A k \in 1..Len(fld) : IsDigit(fld[k])
    /\ DigitsToInt(fld) \in lo..hi

\* datetime.strptime(s, "%Y-%m-%d") returns: four digits, a month and a day that make
\* the whole of s (the day may also be a blank and a digit) and are a date of the
\* calendar.  It raises ValueError otherwise.
StrptimeParses(s) ==
    LET b == Find(s, <<"-">>, 6)
        month == Slice(s, 6, b - 1)
        day == Slice(s, b + 1, Len(s))
        dayDigits == IF Len(day) = 2 /\ day[1] = " " THEN Tail(day) ELSE day
    IN /\ Len(s) >= 8
       /\ \A k \in 1..4 : IsDigit(s[k])
       /\ s[5] = "-"
       /\ b # 0
       /\ NumberField(month, 1, 12)
       /\ NumberField(dayDigits, 1, 31)
       /\ ValidDate(DigitsToInt(Slice(s, 1, 4)), DigitsToInt(month), DigitsToInt(dayDigits))

\* The datetime it returns.
StrptimeValue(s) ==
    LET b == Find(s, <<"-">>, 6)
        day == Slice(s, b + 1, Len(s))
    IN DateTime(DigitsToInt(Slice(s, 1, 4)), DigitsToInt(Slice(s, 6, b - 1)),
                DigitsToInt(IF day[1] = " " THEN Tail(day) ELSE day))

\* The day before (of a date after year 1).
PreviousDay(dt) ==
    IF dt.day > 1 THEN [dt EXCEPT !.day = @ - 1]
    ELSE IF dt.month > 1
    THEN [dt EXCEPT !.month = @ - 1, !.day = DaysInMonth(dt.year, dt.month - 1)]
    ELSE [dt EXCEPT !.year = @ - 1, !.month = 12, !.day = 31]

\* Mutant of MinusHours: the date is left as it is
MinusHours_SameDay(dt, h) == dt

\* dt - timedelta(hours=h), h <= 24
MinusHours(dt, h) ==
    IF dt.hour >= h THEN [dt EXCEPT !.hour = @ - h]
    ELSE [PreviousDay(dt) EXCEPT !.hour = dt.hour + 24 - h]

BeijingOffset == 8

\* f"5 16 {utc_date.day} {utc_date.month} *"
CronOf(utc_date) ==
    <<"5", " ", "1", "6", " ">> \o IntToDigits(utc_date.day) \o <<" ">>
    \o IntToDigits(utc_date.month) \o <<" ", "*">>

\* One iteration of the loop over calendar_data: the schedules it appends.  date is
\* None when the entry has no such key; count is <<n>>, and <<>> when the entry has no
\* such key.
ScheduleOf(day_data) ==
    IF day_data.date = None \/ day_data.date = <<>> THEN <<>>
    ELSE IF ~StrptimeParses(day_data.date) THEN <<>>
    ELSE <<[date |-> day_data.date,
            cron |-> CronOf(MinusHours(StrptimeValue(day_data.date), BeijingOffset)),
            activities_count |-> IF day_data.count = <<>> THEN 0 ELSE day_data.count[1]]>>

RECURSIVE generate_cron_schedule(_)
generate_cron_schedule(calendar_data) ==
    IF calendar_data = <<>> THEN <<>>
    ELSE ScheduleOf(calendar_data[1]) \o generate_cron_schedule(Tail(calendar_data))

(* SpecCron: generate_cron_schedule on one snapshot                        *)

MaxEntries == 2     \* entries in the snapshot

\* The dates of the entries, with the day and month of the day before for those that
\* strptime parses (day 0: it does not).
Dated(str, d, m) == [text |-> str, day |-> d, month |-> m]

EntryDates ==
    { Dated(Iso0117, 16, 1),
      Dated(<<"2", "0", "2", "6", "-", "0", "3", "-", "0", "1">>, 28, 2),
      Dated(<<"2", "0", "2", "8", "-", "0", "3", "-", "0", "1">>, 29, 2),
      Dated(<<"2", "0", "2", "6", "-", "0", "5", "-", "0", "1">>, 30, 4),
      Dated(<<"2", "0", "2", "7", "-", "0", "1", "-", "0", "1">>, 31, 12),
      Dated(<<"2", "0", "2", "6", "-", "1", "2", "-", "3", "1">>, 30, 12),
      Dated(<<"2", "0", "2", "6", "-", "8", "-", "1">>, 31, 7),
      Dated(<<"2", "0", "2", "6", "-", "0", "2", "-", "3", "0">>, 0, 0),
      Dated(<<"2", "0", "2", "6", "-", "1", "3", "-", "0", "1">>, 0, 0),
      Dated(<<"2", "0", "2", "6", "-", "0", "1", "-", "1", "7", " ">>, 0, 0),
      Dated(<<"1", "yue", "1", "7", "ri">>, 0, 0),
      Dated(<<>>, 0, 0),
      Dated(None, 0, 0) }

InitCron ==
    /\ mode = "cron"
    /\ src \in SeqsUpTo(EntryDates \X {<<>>, <<2>>}, MaxEntries)
    /\ activities = [k \in 1..Len(src) |-> [date |-> src[k][1].text, count |-> src[k][2]]]
    /\ server_date = <<>>
    /\ now = DateTime(1, 1, 1)
    /\ file = NoFile
    /\ text = <<>>
    /\ pc = "start"
    /\ matches = <<>>
    /\ i = 0
    /\ kept = <<>>
    /\ result = <<>>
    /\ NoRun

CallCron ==
    /\ mode = "cron"
    /\ pc = "start"
    /\ result' = generate_cron_schedule(activities)
    /\ pc' = "done"
    /\ UNCHANGED <<mode, src, text, server_date, now, file, matches, i, kept, activities, run_vars>>

NextCron == CallCron

SpecCron == InitCron /\ [][NextCron]_vars

\* The entries with a date strptime parses, in order.
Parsable == SelectSeq(src, LAMBDA e : e[1].day # 0)

\* C21: the schedules are one per entry with a parsable date, in the order of the
\* entries, each with the entry's date, the cron expression '5 16 D M *' of the day
\* and month of the day before that date, and the entry's count (0 without count);
\* the other entries are skipped.
C21_CronOfDayBefore ==
    (mode = "cron" /\ pc = "done") =>
        /\ Len(result) = Len(Parsable)
        /\ \A n \in 1..Len(result) :
              /\ result[n].date = Parsable[n][1].text
              /\ result[n].cron =
                    <<"5", " ", "1", "6", " ">> \o IntToDigits(Parsable[n][1].day) \o <<" ">>
                    \o IntToDigits(Parsable[n][1].month) \o <<" ", "*">>
              /\ result[n].activities_count =
                    (IF Parsable[n][2] = <<>> THEN 0 ELSE 2)

\* An entry of 30 February was skipped and the entry of 1 January 2027 after it got
\* the cron expression of 31 December.
C21_Witness ==
    /\ mode = "cron" /\ pc = "done"
    /\ Len(src) = 2
    /\ src[1][1].text = <<"2", "0", "2", "6", "-", "0", "2", "-", "3", "0">>
    /\ src[2][1].text = <<"2", "0", "2", "7", "-", "0", "1", "-", "0", "1">>
    /\ Len(result) = 1
    /\ result[1].cron = <<"5", " ", "1", "6", " ", "3", "1", " ", "1", "2", " ", "*">>

----------------------------------------------------------------------------
(* The mode functions: mode_fetch_calendar, mode_auto_claim, mode_full     *)

RECURSIVE ParseFrom(_, _, _, _, _)
\* The loop of parse_calendar_activities from the k-th match on (what CalendarIterate
\* does step by step): [raised, value], raised when datetime(year, month, day) raises
\* ValueError.
ParseFrom(t, ms, k, current, acts) ==
    IF k > Len(ms) THEN [raised |-> FALSE, value |-> acts]
    ELSE LET match == ms[k]
             year  == IF match.year # <<>> THEN DigitsToInt(match.year) ELSE current.year
             month == DigitsToInt(match.month)
             day   == DigitsToInt(match.day)
         IN IF month # current.month \/ year # current.year
            THEN ParseFrom(t, ms, k + 1, current, acts)
            ELSE IF ~ValidDate(year, month, day)
            THEN [raised |-> TRUE, value |-> <<>>]
            ELSE IF ~NotExpired(DateTime(year, month, day), current)
            THEN ParseFrom(t, ms, k + 1, current, acts)
            ELSE ParseFrom(t, ms, k + 1, current,
                           append_days(acts,
                               day_entries(year, month, day,
                                           parse_activity_details(content_span(t, ms, k)))))

\* parse_calendar_activities(text, server_date) called at the local time n; date is
\* None or a well-formed date.
parse_calendar_activities(t, date, n) ==
    IF t = <<>> THEN [raised |-> FALSE, value |-> <<>>]
    ELSE ParseFrom(t, date_matches(t), 1, IF date # None THEN Strptime(date) ELSE n, <<>>)

\* What call_mcp returns: a dict with an 'error' (the server's, or the one call_mcp
\* makes of an HTTP error or of any exception), or a result with its payload: the
\* date of the structured content (None without one) or the text of the first content
\* (empty without content).
Error == [error |-> TRUE, payload |-> <<>>]
Ok(payload) == [error |-> FALSE, payload |-> payload]

Outcome(resp) == IF resp.error THEN "error" ELSE "ok"

\* Server time: the reference date is 29 April, or there is none and the local time,
\* 17 January, is the reference.
TimeResponses == {Error, Ok(None), Ok(Iso0429)}

\* Calendars: 18 January (to come on 17 January), 30 April (to come on 29 April),
\* 31 April (no such day), 16 January (past), and two of them.
RunCalendars ==
    { <<Sec(4, 1, 2026, 1, 18, Iso0118, <<ItemA>>)>>,
      <<Sec(4, 0, 0, 4, 30, Iso0430, <<ItemB>>)>>,
      <<Sec(4, 1, 0, 4, 31, NoIso, <<ItemA>>)>>,
      <<Sec(4, 1, 2026, 1, 16, Iso0116, <<ItemA>>)>>,
      <<Sec(4, 1, 2026, 1, 18, Iso0118, <<ItemA>>), Sec(4, 0, 0, 4, 30, Iso0430, <<ItemB>>)>> }

CalendarResponses == {Error, Ok(<<>>)} \cup {Ok(RenderCalendar(secs)) : secs \in RunCalendars}

ClaimResponses ==
    {Error, Ok(<<>>), Ok(NoCouponMessage),
     Ok(RenderResponse([succ |-> 1, fail |-> 1, bolds |-> <<<<"you1", "hui", "A">>>>,
                        phrase |-> "none", front |-> TRUE]))}

CouponResponses ==
    {Error, Ok(<<>>),
     Ok(RenderCoupons(<<[title |-> <<"A">>, price |-> "whole", validity |-> TRUE,
                         img |-> FALSE]>>))}

\* save_calendar_data: what open and json.dump can do to the file
SaveOutcomes == {"written", "untouched", "truncated"}

\* save_calendar_data(calendar_data, server_date) called at the local time n: the
\* file after it.  When open or the write raises, the file is as it was or empty.
save_calendar_data(outcome, data, date, n, f) ==
    CASE outcome = "written" -> json_dump(data, date, n)
      [] outcome = "truncated" -> <<>>
      [] OTHER -> f

\* {"success": 0, "failed": 0, "coupons": [], "message": ""}
ZeroClaim == [success |-> 0, failed |-> 0, coupons |-> <<>>, message |-> <<>>]

Modes == {"fetch_calendar", "auto_claim", "full"}

\* Nothing has run; there is no snapshot.
InitRuns ==
    /\ mode = "none"
    /\ pc = "idle"
    /\ src = <<>>
    /\ text = <<>>
    /\ server_date = None
    /\ now = LocalNow
    /\ matches = <<>>
    /\ i = 0
    /\ kept = <<>>
    /\ activities = <<>>
    /\ file = NoFile
    /\ result = <<>>
    /\ NoRun

\* main() calls a mode function, which calls initialize_session(); when that fails
\* the function returns 1.  A run starts when none is under way.
StartRun ==
    /\ mode \in Modes \cup {"none"}
    /\ pc \in {"idle", "returned", "raised"}
    /\ \E m \in Modes, init_ok \in BOOLEAN :
          /\ mode' = m
          /\ calls' = << <<"initialize", IF init_ok THEN "ok" ELSE "error">> >>
          /\ pc' = IF init_ok THEN "time" ELSE "returned"
          /\ exit_code' = IF init_ok THEN <<>> ELSE <<1>>
    /\ server_date' = None
    /\ text' = <<>>
    /\ activities' = <<>>
    /\ claim_result' = None
    /\ my_coupons' = <<>>
    /\ result' = <<>>
    /\ UNCHANGED <<src, now, matches, i, kept, file>>

\* time_resp = get_now_time(session_id) and the server_date taken from it, the same
\* in the three functions
GetNowTime ==
    /\ mode \in Modes
    /\ pc = "time"
    /\ \E resp \in TimeResponses :
          /\ calls' = Append(calls, <<"now-time-info", Outcome(resp)>>)
          /\ server_date' = IF resp.error THEN None ELSE resp.payload
    /\ pc' = IF mode = "auto_claim" THEN "load" ELSE "calendar"
    /\ UNCHANGED <<mode, src, text, now, matches, i, kept, activities, file, result,
                   claim_result, my_coupons, exit_code>>

\* mode_fetch_calendar: the calendar query, the extraction and the save.  An error
\* returns 1, no activity returns 0, both before save_calendar_data.
FetchCalendar ==
    /\ mode = "fetch_calendar"
    /\ pc = "calendar"
    /\ \E resp \in CalendarResponses, outcome \in SaveOutcomes :
          IF resp.error
          THEN /\ calls' = Append(calls, <<"campaign-calender", "error">>)
               /\ pc' = "returned"
               /\ exit_code' = <<1>>
               /\ UNCHANGED <<text, activities, file>>
          ELSE LET parsed == parse_calendar_activities(resp.payload, server_date, now)
               IN /\ text' = resp.payload
                  /\ IF parsed.raised
                     THEN /\ calls' = Append(calls, <<"campaign-calender", "ok">>)
                          /\ pc' = "raised"
                          /\ UNCHANGED <<activities, file, exit_code>>
                     ELSE IF parsed.value = <<>>
                     THEN /\ calls' = Append(calls, <<"campaign-calender", "ok">>)
                          /\ activities' = <<>>
                          /\ pc' = "returned"
                          /\ exit_code' = <<0>>
                          /\ UNCHANGED file
                     ELSE /\ calls' = calls \o << <<"campaign-calender", "ok">>,
                                                   <<"save_calendar_data", outcome>> >>
                          /\ activities' = parsed.value
                          /\ file' = save_calendar_data(outcome, parsed.value, server_date,
                                                        now, file)
                          /\ pc' = "schedule"
                          /\ UNCHANGED exit_code
    /\ UNCHANGED <<mode, src, server_date, now, matches, i, kept, result, claim_result,
                   my_coupons>>

\* mode_fetch_calendar: the schedules, the notification, return 0
FetchNotify ==
    /\ mode = "fetch_calendar"
    /\ pc = "schedule"
    /\ result' = generate_cron_schedule(
                     [k \in 1..Len(activities) |->
                         [date |-> activities[k].date, count |-> <<activities[k].count>>]])
    /\ \E sent \in {"sent", "not sent"} : calls' = Append(calls, <<"sendMessage", sent>>)
    /\ pc' = "returned"
    /\ exit_code' = <<0>>
    /\ UNCHANGED <<mode, src, text, server_date, now, matches, i, kept, activities, file,
                   claim_result, my_coupons>>

\* Mutant of FullCalendarStep: save_calendar_data after the if/else, not in the else
FullCalendarStep_SaveAfter(resp, outcome) ==
    LET parsed == IF resp.error THEN [raised |-> FALSE, value |-> <<>>]
                  ELSE parse_calendar_activities(resp.payload, server_date, now)
    IN /\ text' = IF resp.error THEN text ELSE resp.payload
       /\ IF parsed.raised
          THEN /\ calls' = Append(calls, <<"campaign-calender", "ok">>)
               /\ pc' = "raised"
               /\ UNCHANGED <<activities, file>>
          ELSE /\ calls' = calls \o << <<"campaign-calender", Outcome(resp)>>,
                                        <<"save_calendar_data", outcome>> >>
               /\ activities' = parsed.value
               /\ file' = save_calendar_data(outcome, parsed.value, server_date, now, file)
               /\ pc' = "claim"

\* mode_full: the calendar query answered by resp, the extraction, and the save with
\* its outcome.  An error gives calendar_data = [] and nothing is saved; otherwise
\* what was extracted is saved, whatever it is.
FullCalendarStep(resp, outcome) ==
    IF resp.error
    THEN /\ calls' = Append(calls, <<"campaign-calender", "error">>)
         /\ activities' = <<>>
         /\ pc' = "claim"
         /\ UNCHANGED <<text, file>>
    ELSE LET parsed == parse_calendar_activities(resp.payload, server_date, now)
         IN /\ text' = resp.payload
            /\ IF parsed.raised
               THEN /\ calls' = Append(calls, <<"campaign-calender", "ok">>)
                    /\ pc' = "raised"
                    /\ UNCHANGED <<activities, file>>
               ELSE /\ calls' = calls \o << <<"campaign-calender", "ok">>,
                                             <<"save_calendar_data", outcome>> >>
                    /\ activities' = parsed.value
                    /\ file' = save_calendar_data(outcome, parsed.value, server_date, now,
                                                  file)
                    /\ pc' = "claim"

FullCalendar ==
    /\ mode = "full"
    /\ pc = "calendar"
    /\ \E resp \in CalendarResponses, outcome \in SaveOutcomes : FullCalendarStep(resp, outcome)
    /\ UNCHANGED <<mode, src, server_date, now, matches, i, kept, result, claim_result,
                   my_coupons, exit_code>>

\* mode_auto_claim: saved_data = load_calendar_data(), of which line 1222 takes the
\* activities (nothing in between writes the file); saved_data is None without file
\* and for a file that is no JSON.  The loaded dicts are held as the records they equal.
LoadSaved ==
    /\ mode = "auto_claim"
    /\ pc = "load"
    /\ activities' =
          IF file = NoFile \/ file = <<>> THEN <<>>
          ELSE LET saved_data == load_calendar_data(file)
               IN [k \in 1..Len(saved_data[KeyActivities]) |->
                      AsDay(saved_data[KeyActivities][k])]
    /\ pc' = "claim"
    /\ UNCHANGED <<mode, src, text, server_date, now, matches, i, kept, file, result,
                   run_vars>>

\* claim_resp = auto_claim_coupons(session_id) and the claim_result made of it, the
\* same in mode_auto_claim and mode_full
AutoClaim ==
    /\ mode \in {"auto_claim", "full"}
    /\ pc = "claim"
    /\ \E resp \in ClaimResponses :
          /\ calls' = Append(calls, <<"auto-bind-coupons", Outcome(resp)>>)
          /\ claim_result' = IF resp.error THEN ZeroClaim ELSE parse_claim_result(resp.payload)
          /\ text' = IF resp.error THEN text ELSE resp.payload
    /\ pc' = "coupons"
    /\ UNCHANGED <<mode, src, server_date, now, matches, i, kept, activities, file, result,
                   my_coupons, exit_code>>

\* my_coupons_resp = get_my_coupons(session_id) and the my_coupons made of it
GetMyCoupons ==
    /\ mode \in {"auto_claim", "full"}
    /\ pc = "coupons"
    /\ \E resp \in CouponResponses :
          /\ calls' = Append(calls, <<"my-coupons", Outcome(resp)>>)
          /\ my_coupons' = IF resp.error THEN <<>> ELSE parse_my_coupons(resp.payload)
          /\ text' = IF resp.error THEN text ELSE resp.payload
    /\ pc' = "push"
    /\ UNCHANGED <<mode, src, server_date, now, matches, i, kept, activities, file, result,
                   claim_result, exit_code>>

\* send_telegram_message(format_report(...)): sent, or skipped or failed (False)
PushReport ==
    /\ mode \in {"auto_claim", "full"}
    /\ pc = "push"
    /\ \E sent \in {"sent", "not sent"} : calls' = Append(calls, <<"sendMessage", sent>>)
    /\ pc' = "html"
    /\ UNCHANGED <<mode, src, text, server_date, now, matches, i, kept, activities, file,
                   result, claim_result, my_coupons, exit_code>>

\* index.html is written, or the write raises and is caught; return 0
WriteHtml ==
    /\ mode \in {"auto_claim", "full"}
    /\ pc = "html"
    /\ \E written \in {"written", "failed"} : calls' = Append(calls, <<"index.html", written>>)
    /\ pc' = "returned"
    /\ exit_code' = <<0>>
    /\ UNCHANGED <<mode, src, text, server_date, now, matches, i, kept, activities, file,
                   result, claim_result, my_coupons>>

NextRuns ==
    \/ StartRun
    \/ GetNowTime
    \/ FetchCalendar
    \/ FetchNotify
    \/ FullCalendar
    \/ LoadSaved
    \/ AutoClaim
    \/ GetMyCoupons
    \/ PushReport
    \/ WriteHtml

SpecRuns == InitRuns /\ [][NextRuns]_vars

\* The steps of the run so far, the save apart.
IsStep(call) == call[1] # "save_calendar_data"

Steps == [k \in 1..Len(SelectSeq(calls, IsStep)) |-> SelectSeq(calls, IsStep)[k][1]]

FullOrder ==
    <<"initialize", "now-time-info", "campaign-calender", "auto-bind-coupons", "my-coupons",
      "sendMessage", "index.html">>

Did(what, outcome) == \E k \in 1..Len(calls) : calls[k] = <<what, outcome>>

\* C22: a run of mode_full whose initialisation failed returns 1 and has done nothing
\* else; one whose initialisation succeeded never ends otherwise than by returning 0
\* after the steps time, calendar, claim, my-coupons, notification and HTML page, in
\* that order, and a tool call answered by an error leaves the fallback: no server
\* date, an empty calendar, the zero claim result, no coupon.
C22_ErrorsAbsorbed ==
    mode = "full" =>
        /\ Steps = SubSeq(FullOrder, 1, Len(Steps))
        /\ Did("initialize", "error") =>
              /\ calls = << <<"initialize", "error">> >>
              /\ pc = "returned"
              /\ exit_code = <<1>>
        /\ Did("initialize", "ok") =>
              /\ pc # "raised"
              /\ exit_code \in {<<>>, <<0>>}
              /\ (pc = "returned") = (exit_code = <<0>>)
              /\ pc = "returned" => Steps = FullOrder
              /\ Did("now-time-info", "error") => server_date = None
              /\ Did("campaign-calender", "error") => activities = <<>>
              /\ Did("auto-bind-coupons", "error") => claim_result = ZeroClaim
              /\ Did("my-coupons", "error") => my_coupons = <<>>

\* C23: the snapshot changes only in a step of a run of mode_fetch_calendar or
\* mode_full whose session initialised and whose calendar query returned no error,
\* and in mode_fetch_calendar only when activities were extracted; mode_full, once
\* its calendar query returned no error and the extraction returned, has called
\* save_calendar_data, and the snapshot it wrote holds what was extracted, an empty
\* list too.
C23_SnapshotFrame ==
    /\ [][file' # file =>
            /\ mode' = mode
            /\ mode \in {"fetch_calendar", "full"}
            /\ calls'[1] = <<"initialize", "ok">>
            /\ \E k \in 1..Len(calls') : calls'[k] = <<"campaign-calender", "ok">>
            /\ mode = "fetch_calendar" => activities' # <<>>]_vars
    /\ []((mode = "full" /\ pc \notin {"time", "calendar", "raised"}
                /\ Did("campaign-calender", "ok")) =>
             /\ \E k \in 1..Len(calls) : calls[k][1] = "save_calendar_data"
             /\ Did("save_calendar_data", "written") =>
                   file = json_dump(activities, server_date, now))

\* A run of mode_fetch_calendar whose calendar query returned no error extracted no
\* activity and returned 0, and the snapshot an earlier run wrote, with a day in it,
\* is still there.
C23_Witness ==
    /\ mode = "fetch_calendar"
    /\ pc = "returned"
    /\ exit_code = <<0>>
    /\ Did("campaign-calender", "ok")
    /\ activities = <<>>
    /\ file \notin {NoFile, <<>>}
    /\ Len(load_calendar_data(file)[KeyActivities]) > 0

====
